---------------------------- MODULE Spec2Model ----------------------------
(***************************************************************************)
(* Model of the Eon Terraform provider: the backup-policy translator       *)
(* (createBackupPolicyExpression, createStandardScheduleConfig,            *)
(* createHighFrequencyScheduleConfig, createDailyConfigFromModel,          *)
(* SafeInt32Conversion) and the backup-policy reconciler                   *)
(* (BackupPolicyResource.Create / Read / Update / Delete / ImportState)    *)
(* running against the remote API client; RestoreJobResource.Create with   *)
(* EonClient.WaitForRestoreJobCompletion; and the token check every        *)
(* operation of EonClient begins with.                                     *)
(*                                                                         *)
(* Specifications:                                                         *)
(*   Spec             the reconciler of one backup-policy resource         *)
(*   SpecTrans        the pure translation functions on bounded inputs     *)
(*   SpecRestore      one Create of a restore job, with its polling loop   *)
(*   SpecRestoreFair  SpecRestore with the ticker and deadline delivered   *)
(*   SpecClient       the operations of one EonClient as time passes       *)
(*   SpecRace         operations of one EonClient on several goroutines    *)
(*   SpecAccount      the reconciler of a source or restore account        *)
(*   SpecMock         MockEonClient and the goroutines listing from it     *)
(***************************************************************************)
EXTENDS Integers, Sequences, FiniteSets, TLC

VARIABLES
    state,      \* tracked Terraform state of the policy: Null or <<record>>
    remote,     \* the remote service's policies: id -> Null or <<wire policy>>
    resp,       \* outcome of the last handler: op, plan, errors, remote calls
    written,    \* history: id -> the document last written to the remote for it
    nextId,     \* ids handed out by the remote service so far
    now,        \* wall clock read by time.Now()
    call,       \* SpecTrans: the translation call made, Null before it
    rpc,        \* SpecRestore: position of RestoreJobResource.Create
    rdata,      \* the restore-job plan Create was handed: Null or <<record>>
    rresp,      \* Create's error diagnostics and the client calls it made
    rstate,     \* the restore-job state Create stored: Null or <<record>>
    wait,       \* WaitForRestoreJobCompletion: its clock, polls and result
    client,     \* SpecClient: EonClient's cached token, the clock, the last call
    acct,       \* SpecAccount: a source or restore account resource and the remote
    conc,       \* SpecRace: operations running concurrently on one EonClient
    mock        \* SpecMock: a MockEonClient and the calls running on it

policyVars == <<state, remote, resp, written, nextId, now>>
transVars == <<call>>
restoreVars == <<rpc, rdata, rresp, rstate, wait>>
clientVars == <<client>>
acctVars == <<acct>>
concVars == <<conc>>
mockVars == <<mock>>
vars ==
    <<state, remote, resp, written, nextId, now, call, rpc, rdata, rresp, rstate, wait,
      client, acct, conc, mock>>

----------------------------------------------------------------------------
(* Optional values: a null attribute is the empty tuple, a known one <<v>>. *)

Null == <<>>
Some(v) == <<v>>
IsNull(x) == x = <<>>
Val(x) == x[1]

----------------------------------------------------------------------------
(* 64-bit integers.  TLC's integers are 32 bits wide, so an int64 is kept  *)
(* as three limbs <<hi, mid, lo>> of value hi*2^48 + mid*2^24 + lo with    *)
(* 0 <= mid, lo < 2^24 and -2^15 <= hi < 2^15.                             *)

Limb == 2^24

\* the int64 holding a number that fits TLC's integers
I64(n) ==
    IF n >= 0 THEN <<0, n \div Limb, n % Limb>>
              ELSE <<-1, Limb + (n \div Limb), n % Limb>>

\* a < b on int64
Lt64(a, b) ==
    \/ a[1] < b[1]
    \/ a[1] = b[1] /\ a[2] < b[2]
    \/ a[1] = b[1] /\ a[2] = b[2] /\ a[3] < b[3]

MaxInt32 == 2147483647
MinInt32 == -2147483647 - 1

MaxInt64 == <<32767, Limb - 1, Limb - 1>>
MinInt64 == <<-32768, 0, 0>>

\* a + 1 and a - 1 on int64 (not applied to MaxInt64 / MinInt64)
Succ64(a) ==
    IF a[3] < Limb - 1 THEN <<a[1], a[2], a[3] + 1>>
    ELSE IF a[2] < Limb - 1 THEN <<a[1], a[2] + 1, 0>>
    ELSE <<a[1] + 1, 0, 0>>

Pred64(a) ==
    IF a[3] > 0 THEN <<a[1], a[2], a[3] - 1>>
    ELSE IF a[2] > 0 THEN <<a[1], a[2] - 1, Limb - 1>>
    ELSE <<a[1] - 1, Limb - 1, Limb - 1>>

\* Go's value * 1024 * 1024 * 1024 on int64: the low 64 bits of the product
MulGiB(value) ==
    LET a == value[3] * 64
        hi == ((a \div Limb) + value[2] * 64) % 65536
    IN  <<IF hi >= 32768 THEN hi - 65536 ELSE hi, a % Limb, 0>>

\* Go's int32(value): the low 32 bits, read as a signed number
Int32Of(value) ==
    LET top == value[2] % 256
    IN  IF top >= 128 THEN (top - 256) * Limb + value[3]
                      ELSE top * Limb + value[3]

\* the earlier revision of the helper, with the bounds test inverted
SafeInt32ConversionInverted(value) ==
    IF Lt64(value, I64(MinInt32)) \/ Lt64(I64(MaxInt32), value)
    THEN [val |-> Int32Of(value), err |-> ""]
    ELSE [val |-> 0, err |-> "value out of int32 bounds"]

SafeInt32Conversion(value) ==
    IF Lt64(value, I64(MinInt32)) \/ Lt64(I64(MaxInt32), value)
    THEN [val |-> 0, err |-> "value out of int32 bounds"]
    ELSE [val |-> Int32Of(value), err |-> ""]

----------------------------------------------------------------------------
(* The declarative document of resource_selector.expression (Schema) and   *)
(* the SDK's BackupPolicyExpression it is translated to.  A document node  *)
(* and an SDK expression are records with one optional field per key.      *)

\* keys of the top-level expression block of the schema
TopKeys == {"environment", "resource_type", "tag_key_values", "tag_keys", "group"}

\* fields of OperandModel, in declaration order
OperandKeySeq ==
    <<"resource_type", "environment", "tag_keys", "tag_key_values",
      "data_classes", "apps", "cloud_provider", "account_id", "source_region",
      "vpc", "subnets", "resource_group_name", "resource_name", "resource_id">>

OperandKeys == {OperandKeySeq[i] : i \in 1..Len(OperandKeySeq)}

\* optional fields of the SDK's BackupPolicyExpression
ExprKeys == OperandKeys \cup {"group"}

\* externalEonSdkAPI.NewBackupPolicyExpression(): every field unset
NewBackupPolicyExpression == [k \in ExprKeys |-> Null]

\* NewTagKeyValue(kv.Key) followed by SetValue(kv.Value)
TagKeyValueOf(kv) == [key |-> kv.key, value |-> kv.value]

\* the element-wise conversion of a condition's list to the SDK's type
ValuesOf(k, values) ==
    IF k = "tag_key_values"
    THEN [i \in 1..Len(values) |-> TagKeyValueOf(values[i])]
    ELSE [i \in 1..Len(values) |-> values[i]]

\* New<Kind>Condition(operator, values) for the condition under key k
ConditionOf(k, c) == [operator |-> c.operator, values |-> ValuesOf(k, c.values)]

\* the loop body over one operand: every populated field is set on the
\* operand's expression, and the expression is appended whatever it holds
OperandExpression(operand) ==
    [k \in ExprKeys |->
        IF k \in OperandKeys /\ ~IsNull(operand[k])
        THEN Some(ConditionOf(k, Val(operand[k])))
        ELSE Null]

\* NewBackupPolicyGroupCondition(logicalOperator, expressions)
GroupConditionOf(g) ==
    [operator |-> g.operator,
     operands |-> [i \in 1..Len(g.operands) |-> OperandExpression(g.operands[i])]]

\* the first populated key of the top-level expression, in the order the
\* translation tests them
FirstKey(e) ==
    IF ~IsNull(e.environment) THEN "environment"
    ELSE IF ~IsNull(e.resource_type) THEN "resource_type"
    ELSE IF ~IsNull(e.tag_key_values) THEN "tag_key_values"
    ELSE IF ~IsNull(e.tag_keys) THEN "tag_keys"
    ELSE IF ~IsNull(e.group) THEN "group"
    ELSE ""

createBackupPolicyExpression(data) ==
    IF IsNull(data.expression)
    THEN [expr |-> Null,
          err |-> "expression is required for CONDITIONAL resource selection mode"]
    ELSE LET e == Val(data.expression)
             k == FirstKey(e)
         IN  IF k = ""
             THEN [expr |-> Null,
                   err |-> "expression must have at least one condition"]
             ELSE IF k = "group"
             THEN [expr |-> Some([NewBackupPolicyExpression EXCEPT
                                    !["group"] = Some(GroupConditionOf(Val(e.group)))]),
                   err |-> ""]
             ELSE [expr |-> Some([NewBackupPolicyExpression EXCEPT
                                    ![k] = Some(ConditionOf(k, Val(e[k])))]),
                   err |-> ""]

----------------------------------------------------------------------------
(* Schedule translation.  A schedule_config document holds frequency and   *)
(* the optional daily_config / interval_config blocks; Int64 attributes    *)
(* are optional int64 values.                                              *)

\* types.Int64.ValueInt64(): 0 for a null attribute
ValueInt64(x) == IF IsNull(x) THEN I64(0) ELSE Val(x)

\* NewDailyConfigWithDefaults leaves both fields to the SDK's defaults (Null)
createDailyConfigFromModel(data) ==
    LET both == ~IsNull(data.time_of_day_hour) /\ ~IsNull(data.time_of_day_minutes)
        hour == SafeInt32Conversion(ValueInt64(data.time_of_day_hour))
        minutes == SafeInt32Conversion(ValueInt64(data.time_of_day_minutes))
        sw == SafeInt32Conversion(ValueInt64(data.start_window_minutes))
    IN  IF both /\ hour.err # "" THEN [cfg |-> Null, err |-> hour.err]
        ELSE IF both /\ minutes.err # "" THEN [cfg |-> Null, err |-> minutes.err]
        ELSE IF ~IsNull(data.start_window_minutes) /\ sw.err # ""
        THEN [cfg |-> Null, err |-> sw.err]
        ELSE [cfg |-> Some([time_of_day |->
                                IF both THEN Some([hour |-> hour.val, minutes |-> minutes.val])
                                        ELSE Null,
                            start_window_minutes |->
                                IF IsNull(data.start_window_minutes) THEN Null
                                ELSE Some(sw.val)]),
              err |-> ""]

\* the start window is stored as int32(value), its conversion error dropped
StandardDailyConfigUnchecked(dailyConfigAttrs) ==
    LET hour == SafeInt32Conversion(ValueInt64(dailyConfigAttrs.time_of_day_hour))
        minutes == SafeInt32Conversion(ValueInt64(dailyConfigAttrs.time_of_day_minutes))
    IN  IF hour.err # "" THEN [cfg |-> Null, err |-> "invalid time of day hour"]
        ELSE IF minutes.err # "" THEN [cfg |-> Null, err |-> "invalid time of day minutes"]
        ELSE [cfg |-> Some([time_of_day |-> Some([hour |-> hour.val, minutes |-> minutes.val]),
                            start_window_minutes |->
                                IF IsNull(dailyConfigAttrs.start_window_minutes) THEN Null
                                ELSE Some(Int32Of(Val(dailyConfigAttrs.start_window_minutes)))]),
              err |-> ""]

\* the DAILY branch: NewDailyConfig, SetTimeOfDay, optional SetStartWindowMinutes
StandardDailyConfig(dailyConfigAttrs) ==
    LET hour == SafeInt32Conversion(ValueInt64(dailyConfigAttrs.time_of_day_hour))
        minutes == SafeInt32Conversion(ValueInt64(dailyConfigAttrs.time_of_day_minutes))
        sw == SafeInt32Conversion(ValueInt64(dailyConfigAttrs.start_window_minutes))
    IN  IF hour.err # "" THEN [cfg |-> Null, err |-> "invalid time of day hour"]
        ELSE IF minutes.err # "" THEN [cfg |-> Null, err |-> "invalid time of day minutes"]
        ELSE IF ~IsNull(dailyConfigAttrs.start_window_minutes) /\ sw.err # ""
        THEN [cfg |-> Null, err |-> "invalid start window minutes"]
        ELSE [cfg |-> Some([time_of_day |-> Some([hour |-> hour.val, minutes |-> minutes.val]),
                            start_window_minutes |->
                                IF IsNull(dailyConfigAttrs.start_window_minutes) THEN Null
                                ELSE Some(sw.val)]),
              err |-> ""]

createStandardScheduleConfig(schedule) ==
    LET scheduleConfigAttrs == schedule.schedule_config
        frequency == scheduleConfigAttrs.frequency
    IN  IF frequency = "DAILY"
        THEN IF IsNull(scheduleConfigAttrs.daily_config)
             THEN [cfg |-> Some([frequency |-> "DAILY", daily_config |-> Null]), err |-> ""]
             ELSE LET d == StandardDailyConfig(Val(scheduleConfigAttrs.daily_config))
                  IN  IF d.err # "" THEN [cfg |-> Null, err |-> d.err]
                      ELSE [cfg |-> Some([frequency |-> "DAILY", daily_config |-> d.cfg]),
                            err |-> ""]
        ELSE [cfg |-> Null, err |-> "unsupported schedule frequency"]

\* interval_config is a required block of the high-frequency schema
createHighFrequencyScheduleConfig(schedule) ==
    LET scheduleConfigAttrs == schedule.schedule_config
        frequency == scheduleConfigAttrs.frequency
        intervalConfigAttrs == Val(scheduleConfigAttrs.interval_config)
        intervalHours == SafeInt32Conversion(ValueInt64(intervalConfigAttrs.interval_minutes))
    IN  IF frequency = "INTERVAL"
        THEN IF intervalHours.err # ""
             THEN [cfg |-> Null, err |-> "invalid interval hours"]
             ELSE [cfg |-> Some([frequency |-> "INTERVAL",
                                 interval_config |->
                                     Some([interval_minutes |-> intervalHours.val])]),
                   err |-> ""]
        ELSE [cfg |-> Null, err |-> "unsupported high frequency schedule frequency"]

----------------------------------------------------------------------------
(* Bounded inputs of the translation functions.                            *)

MaxOperands == 1     \* operands per group
MaxValues == 1       \* values per condition
MaxPopulated == 2    \* populated keys per expression node
NumOperandKeys == 2  \* operand keys the documents populate, of OperandKeySeq
Delta == 2           \* int64 inputs lie within Delta of a boundary value

RECURSIVE Add64(_, _)
Add64(a, d) ==
    IF d = 0 THEN a
    ELSE IF d > 0 THEN Add64(IF a = MaxInt64 THEN a ELSE Succ64(a), d - 1)
    ELSE Add64(IF a = MinInt64 THEN a ELSE Pred64(a), d + 1)

Near(a) == {Add64(a, d) : d \in -Delta..Delta}

Int64Inputs ==
    Near(MinInt64) \cup Near(I64(MinInt32)) \cup Near(I64(0)) \cup Near(I64(100))
        \cup Near(I64(-100)) \cup Near(I64(MaxInt32)) \cup Near(MaxInt64)

\* the literal a condition under key k lists
Literal(k) == IF k = "tag_key_values" THEN [key |-> "k", value |-> "v"] ELSE "v"

\* the first operator the schema documents for key k
OperatorOf(k) ==
    IF k \in {"tag_key_values", "tag_keys", "data_classes", "apps", "subnets"}
    THEN "CONTAINS_ANY_OF" ELSE "IN"

ConditionDocs(k) ==
    {[operator |-> OperatorOf(k), values |-> [i \in 1..n |-> Literal(k)]] :
        n \in 0..MaxValues}

OptConditionDocs(k) == {Null} \cup {Some(c) : c \in ConditionDocs(k)}

InputOperandKeys == {OperandKeySeq[i] : i \in 1..NumOperandKeys}

OperandField(k) == IF k \in InputOperandKeys THEN OptConditionDocs(k) ELSE {Null}

Populated(node) == {k \in DOMAIN node : ~IsNull(node[k])}

OperandDocs ==
    {o \in [resource_type : OperandField("resource_type"),
            environment : OperandField("environment"),
            tag_keys : OperandField("tag_keys"),
            tag_key_values : OperandField("tag_key_values"),
            data_classes : OperandField("data_classes"),
            apps : OperandField("apps"),
            cloud_provider : OperandField("cloud_provider"),
            account_id : OperandField("account_id"),
            source_region : OperandField("source_region"),
            vpc : OperandField("vpc"),
            subnets : OperandField("subnets"),
            resource_group_name : OperandField("resource_group_name"),
            resource_name : OperandField("resource_name"),
            resource_id : OperandField("resource_id")] :
        Cardinality(Populated(o)) <= MaxPopulated}

OperandLists == UNION {[1..n -> OperandDocs] : n \in 0..MaxOperands}

GroupDocs == {[operator |-> op, operands |-> ops] : op \in {"AND", "OR"}, ops \in OperandLists}

ExpressionDocs ==
    {e \in [environment : OptConditionDocs("environment"),
            resource_type : OptConditionDocs("resource_type"),
            tag_key_values : OptConditionDocs("tag_key_values"),
            tag_keys : OptConditionDocs("tag_keys"),
            group : {Null} \cup {Some(g) : g \in GroupDocs}] :
        Cardinality(Populated(e)) <= MaxPopulated}

\* a resource_selector document
Selector(mode, expression) ==
    [resource_selection_mode |-> mode,
     resource_inclusion_override |-> Null,
     resource_exclusion_override |-> Null,
     expression |-> expression]

OptInt64Near(anchors) == {Null} \cup {Some(v) : v \in UNION {Near(I64(a)) : a \in anchors}}

DailyConfigDocs ==
    [time_of_day_hour : {Null, Some(I64(2)), Some(Succ64(I64(MaxInt32)))},
     time_of_day_minutes : {Null, Some(I64(30)), Some(Pred64(I64(MinInt32)))},
     start_window_minutes : OptInt64Near({MinInt32, 0, 240, 1320, MaxInt32})]

IntervalConfigDocs ==
    [interval_minutes : {Some(v) : v \in Near(I64(0)) \cup Near(I64(360)) \cup Near(I64(480))
                                          \cup Near(I64(MaxInt32))},
     start_window_minutes : {Null}]

Frequencies == {"DAILY", "WEEKLY", "MONTHLY", "ANNUALLY", "INTERVAL"}

\* schedule_config documents handed to createStandardScheduleConfig
StandardScheduleConfigDocs ==
    {[frequency |-> "DAILY", daily_config |-> d, interval_config |-> Null] :
        d \in {Null} \cup {Some(c) : c \in DailyConfigDocs}}
    \cup {[frequency |-> f, daily_config |-> Null, interval_config |-> Null] :
            f \in Frequencies \ {"DAILY"}}
    \cup {[frequency |-> "INTERVAL", daily_config |-> Null, interval_config |-> Some(c)] :
            c \in IntervalConfigDocs}

\* schedule_config documents handed to createHighFrequencyScheduleConfig
HighFrequencyScheduleConfigDocs ==
    {[frequency |-> f, daily_config |-> Null, interval_config |-> Some(c)] :
        f \in Frequencies, c \in IntervalConfigDocs}

Schedule(vault, retention, cfg) ==
    [vault_id |-> vault, retention_days |-> retention, schedule_config |-> cfg]

----------------------------------------------------------------------------
(* Request translation shared by BackupPolicyResource.Create and Update:   *)
(* the resource selector, then the plan of the declared policy type.  The  *)
(* result is the request, or the summary of the first error diagnostic.    *)

\* the resource selector of the request; the expression is translated only
\* when the document holds one, whatever resource_selection_mode says
ResourceSelectorOf(sel) ==
    LET r == createBackupPolicyExpression(sel)
    IN  IF ~IsNull(sel.expression) /\ r.err # ""
        THEN [sel |-> Null, err |-> "Invalid Conditional Expression"]
        ELSE [sel |-> Some([resource_selection_mode |-> sel.resource_selection_mode,
                            expression |-> IF IsNull(sel.expression) THEN Null ELSE r.expr,
                            resource_inclusion_override |-> sel.resource_inclusion_override,
                            resource_exclusion_override |-> sel.resource_exclusion_override]),
              err |-> ""]

\* the schedules loop: each schedule's config, then its retention days; the
\* first failure ends the handler.  kind is "STANDARD" or "HIGH_FREQUENCY".
RECURSIVE BackupSchedulesOf(_, _)
BackupSchedulesOf(kind, schedules) ==
    IF schedules = <<>> THEN [list |-> <<>>, err |-> ""]
    ELSE LET schedule == Head(schedules)
             c == IF kind = "STANDARD" THEN createStandardScheduleConfig(schedule)
                                       ELSE createHighFrequencyScheduleConfig(schedule)
             retentionDays == SafeInt32Conversion(schedule.retention_days)
             rest == BackupSchedulesOf(kind, Tail(schedules))
         IN  IF c.err # "" THEN [list |-> <<>>, err |-> "Invalid Schedule Configuration"]
             ELSE IF retentionDays.err # "" THEN [list |-> <<>>, err |-> "Invalid Retention Days"]
             ELSE IF rest.err # "" THEN rest
             ELSE [list |-> <<[vault_id |-> schedule.vault_id,
                               schedule_config |-> Val(c.cfg),
                               retention_days |-> retentionDays.val]>> \o rest.list,
                   err |-> ""]

\* NewHighFrequencyBackupResourceType + SetResourceType for each string
ResourceTypesOf(resourceTypeStrings) ==
    [i \in 1..Len(resourceTypeStrings) |-> [resource_type |-> resourceTypeStrings[i]]]

\* the switch on backup_policy_type; Object.As of a null plan block is an
\* error diagnostic of the plugin framework
BackupPlanOf(bp) ==
    IF bp.backup_policy_type \in {"STANDARD", "PITR"}
    THEN IF IsNull(bp.standard_plan)
         THEN [plan |-> Null, err |-> "Value Conversion Error"]
         ELSE LET b == BackupSchedulesOf("STANDARD", Val(bp.standard_plan).backup_schedules)
              IN  IF b.err # "" THEN [plan |-> Null, err |-> b.err]
                  ELSE [plan |-> Some([backup_policy_type |-> bp.backup_policy_type,
                                       standard_plan |-> Some([backup_schedules |-> b.list]),
                                       high_frequency_plan |-> Null]),
                        err |-> ""]
    ELSE IF bp.backup_policy_type = "HIGH_FREQUENCY"
    THEN IF IsNull(bp.high_frequency_plan)
         THEN [plan |-> Null, err |-> "Value Conversion Error"]
         ELSE LET hf == Val(bp.high_frequency_plan)
                  b == BackupSchedulesOf("HIGH_FREQUENCY", hf.backup_schedules)
              IN  IF b.err # "" THEN [plan |-> Null, err |-> b.err]
                  ELSE [plan |-> Some([backup_policy_type |-> bp.backup_policy_type,
                                       standard_plan |-> Null,
                                       high_frequency_plan |->
                                           Some([resource_types |-> ResourceTypesOf(hf.resource_types),
                                                 backup_schedules |-> b.list])]),
                        err |-> ""]
    ELSE [plan |-> Null, err |-> "Unsupported Backup Policy Type"]

\* NewCreateBackupPolicyRequest / NewUpdateBackupPolicyRequest + SetEnabled
BuildRequest(data) ==
    LET s == ResourceSelectorOf(data.resource_selector)
        b == BackupPlanOf(data.backup_plan)
    IN  IF s.err # "" THEN [req |-> Null, err |-> s.err]
        ELSE IF b.err # "" THEN [req |-> Null, err |-> b.err]
        ELSE [req |-> Some([name |-> data.name,
                            enabled |-> data.enabled,
                            resource_selector |-> Val(s.sel),
                            backup_plan |-> Val(b.plan)]),
              err |-> ""]

----------------------------------------------------------------------------
(* RestoreJobResource: the five target builders.  A builder validates the  *)
(* fields it requires and then makes its start call; its result here is    *)
(* the start call it would make with the request, or its error.            *)

\* attr.IsNull() || attr.ValueString() == ""
IsEmptyString(attr) == IsNull(attr) \/ Val(attr) = ""

\* list.IsNull() || len(list.Elements()) == 0
IsEmptyList(attr) == IsNull(attr) \/ Val(attr) = <<>>

\* types.String.ValueString(): "" for a null attribute
ValueString(attr) == IF IsNull(attr) THEN "" ELSE Val(attr)

\* a builder's outcome: the client method it calls and the request, or err
Refused(err) == [start |-> "", request |-> Null, err |-> err]
Starts(method, request) == [start |-> method, request |-> Some(request), err |-> ""]

createEbsVolumeRestore(data) ==
    LET config == Val(data.ebs_config)
        iops == SafeInt32Conversion(ValueInt64(config.iops))
    IN  IF IsEmptyString(config.provider_volume_id)
        THEN Refused("provider_volume_id is required for EBS volume restore")
        ELSE IF IsEmptyString(config.availability_zone)
        THEN Refused("availability_zone is required for EBS volume restore")
        ELSE IF IsEmptyString(config.volume_type)
        THEN Refused("volume_type is required for EBS volume restore")
        ELSE IF IsNull(config.volume_size) \/ ValueInt64(config.volume_size) = I64(0)
        THEN Refused("volume_size is required for EBS volume restore")
        ELSE IF ~IsNull(config.iops) /\ iops.err # ""
        THEN Refused(iops.err)
        ELSE Starts("StartVolumeRestore",
                    [provider_volume_id |-> Val(config.provider_volume_id),
                     restore_account_id |-> data.restore_account_id,
                     availability_zone |-> Val(config.availability_zone),
                     volume_type |-> Val(config.volume_type),
                     size_bytes |-> Val(config.volume_size),
                     iops |-> IF IsNull(config.iops) THEN Null ELSE Some(iops.val)])

createEc2InstanceRestore(data) ==
    LET config == Val(data.ec2_config)
    IN  IF IsEmptyString(config.region)
        THEN Refused("region is required for EC2 instance restore")
        ELSE IF IsEmptyString(config.instance_type)
        THEN Refused("instance_type is required for EC2 instance restore")
        ELSE IF IsEmptyString(config.subnet_id)
        THEN Refused("subnet_id is required for EC2 instance restore")
        ELSE IF IsEmptyList(config.volume_restore_params)
        THEN Refused("volume_restore_params is required for EC2 instance restore")
        ELSE LET volParams == Val(config.volume_restore_params)
                 iops(i) == SafeInt32Conversion(ValueInt64(volParams[i].iops))
                 bad == {i \in DOMAIN volParams :
                            ~IsNull(volParams[i].iops) /\ iops(i).err # ""}
             IN  IF bad # {}
                 THEN Refused(iops(CHOOSE i \in bad : \A j \in bad : i <= j).err)
                 ELSE Starts("StartEc2InstanceRestore",
                             [restore_account_id |-> data.restore_account_id,
                              region |-> Val(config.region),
                              instance_type |-> Val(config.instance_type),
                              subnet_id |-> Val(config.subnet_id),
                              volume_restore_parameters |->
                                  [i \in DOMAIN volParams |->
                                      [provider_volume_id |->
                                           ValueString(volParams[i].provider_volume_id),
                                       volume_settings |->
                                           [type |-> ValueString(volParams[i].volume_type),
                                            size_bytes |->
                                                MulGiB(ValueInt64(volParams[i].volume_size)),
                                            iops |-> IF IsNull(volParams[i].iops) THEN Null
                                                     ELSE Some(iops(i).val)]]]])

\* createRdsRestore without its checks
createRdsRestoreUnchecked(data) ==
    LET config == Val(data.rds_config)
    IN  Starts("StartRdsRestore",
               [restore_account_id |-> data.restore_account_id,
                restore_region |-> ValueString(config.region),
                restored_name |-> ValueString(config.db_instance_identifier),
                encryption_key_id |-> ValueString(config.kms_key_id)])

createRdsRestore(data) ==
    LET config == Val(data.rds_config)
    IN  IF IsEmptyString(config.db_instance_identifier)
        THEN Refused("db_instance_identifier is required for RDS restore")
        ELSE IF IsEmptyString(config.db_instance_class)
        THEN Refused("db_instance_class is required for RDS restore")
        ELSE IF IsEmptyString(config.engine)
        THEN Refused("engine is required for RDS restore")
        ELSE IF IsEmptyString(config.region)
        THEN Refused("region is required for RDS restore")
        ELSE IF IsEmptyString(config.kms_key_id)
        THEN Refused("kms_key_id is required for RDS restore")
        ELSE Starts("StartRdsRestore",
                    [restore_account_id |-> data.restore_account_id,
                     restore_region |-> Val(config.region),
                     restored_name |-> Val(config.db_instance_identifier),
                     encryption_key_id |-> Val(config.kms_key_id)])

createS3BucketRestore(data) ==
    LET config == Val(data.s3_bucket_config)
    IN  IF IsEmptyString(config.bucket_name)
        THEN Refused("bucket_name is required for S3 bucket restore")
        ELSE Starts("StartS3BucketRestore",
                    [restore_account_id |-> data.restore_account_id,
                     bucket_name |-> Val(config.bucket_name)])

createS3FileRestore(data) ==
    LET config == Val(data.s3_file_config)
    IN  IF IsEmptyString(config.bucket_name)
        THEN Refused("bucket_name is required for S3 file restore")
        ELSE IF IsEmptyList(config.files)
        THEN Refused("files is required for S3 file restore")
        ELSE Starts("StartS3FileRestore",
                    [restore_account_id |-> data.restore_account_id,
                     bucket_name |-> Val(config.bucket_name),
                     files |-> [i \in DOMAIN Val(config.files) |->
                                   [path |-> ValueString(Val(config.files)[i].path)]]])

\* the switch on the inventory resource's type and restore_type: the error
\* diagnostic of a missing config block, or the builder's outcome
\* (builder "" when none was selected)
Dispatched(builder, outcome) == [builder |-> builder, diag |-> "", outcome |-> outcome]
ConfigurationError(detail) == [builder |-> "", diag |-> detail, outcome |-> Refused("")]

\* Dispatch had it looked at the config blocks rather than at restore_type
DispatchByBlock(data, resourceType) ==
    IF resourceType = "AWS_EC2" /\ ~IsNull(data.ebs_config)
    THEN Dispatched("createEbsVolumeRestore", createEbsVolumeRestore(data))
    ELSE IF resourceType = "AWS_S3" /\ ~IsNull(data.s3_file_config)
    THEN Dispatched("createS3FileRestore", createS3FileRestore(data))
    ELSE ConfigurationError("Unsupported resource type")

Dispatch(data, resourceType) ==
    LET restoreType == data.restore_type
    IN  IF resourceType = "AWS_EC2"
        THEN IF restoreType = "partial"
             THEN IF IsNull(data.ebs_config)
                  THEN ConfigurationError(
                           "ebs_config is required when restoring AWS EC2 volumes with restore_type 'partial'")
                  ELSE Dispatched("createEbsVolumeRestore", createEbsVolumeRestore(data))
             ELSE IF IsNull(data.ec2_config)
                  THEN ConfigurationError(
                           "ec2_config is required when restoring AWS EC2 instances with restore_type 'full'")
                  ELSE Dispatched("createEc2InstanceRestore", createEc2InstanceRestore(data))
        ELSE IF resourceType = "AWS_RDS"
        THEN IF IsNull(data.rds_config)
             THEN ConfigurationError("rds_config is required when restoring AWS RDS databases")
             ELSE Dispatched("createRdsRestore", createRdsRestore(data))
        ELSE IF resourceType = "AWS_S3"
        THEN IF restoreType = "full"
             THEN IF IsNull(data.s3_bucket_config)
                  THEN ConfigurationError(
                           "s3_bucket_config is required when restoring AWS S3 buckets with restore_type 'full'")
                  ELSE Dispatched("createS3BucketRestore", createS3BucketRestore(data))
             ELSE IF IsNull(data.s3_file_config)
                  THEN ConfigurationError(
                           "s3_file_config is required when restoring AWS S3 files with restore_type 'partial'")
                  ELSE Dispatched("createS3FileRestore", createS3FileRestore(data))
        ELSE ConfigurationError("Unsupported resource type")

----------------------------------------------------------------------------
(* Restore-job plans and the remote's answers.                             *)

MaxTimeoutMinutes == 1   \* timeout_minutes of the plans that wait
TickSeconds == 10        \* period of the polling ticker

\* TicksOf had the ticker ticked once at its creation
TicksOfEager(minutes) == IF minutes > 0 THEN (minutes * 60) \div TickSeconds + 1 ELSE 1

\* ticks of the polling ticker in a timeout of so many minutes
TicksOf(minutes) == IF minutes > 0 THEN (minutes * 60) \div TickSeconds ELSE 0

GoodEbs ==
    [provider_volume_id |-> Some("vol-1"), availability_zone |-> Some("us-east-1a"),
     volume_type |-> Some("gp3"), volume_size |-> Some(I64(8)), iops |-> Null]

\* an element of volume_restore_params; volume_size is in GiB
VolumeRestoreParam(volumeSize, iops) ==
    [provider_volume_id |-> Some("vol-1"), volume_type |-> Some("gp3"),
     volume_size |-> volumeSize, iops |-> iops]

GoodEc2 ==
    [region |-> Some("us-east-1"), instance_type |-> Some("t3.micro"),
     subnet_id |-> Some("subnet-1"),
     volume_restore_params |-> Some(<<VolumeRestoreParam(Some(I64(8)), Null)>>)]

GoodRds ==
    [db_instance_identifier |-> Some("db-1"), db_instance_class |-> Some("db.t3.micro"),
     engine |-> Some("postgres"), region |-> Some("us-east-1"),
     kms_key_id |-> Some("alias/aws/rds")]

GoodS3Bucket == [bucket_name |-> Some("b-1")]

GoodS3File == [bucket_name |-> Some("b-1"), files |-> Some(<<[path |-> Some("a/b")]>>)]

\* config with one of fields replaced by one of values
Variants(config, fields, values) == {[config EXCEPT ![f] = v] : f \in fields, v \in values}

EbsConfigs ==
    {GoodEbs}
        \cup Variants(GoodEbs, {"provider_volume_id", "availability_zone", "volume_type"},
                      {Null, Some("")})
        \cup Variants(GoodEbs, {"volume_size"}, {Null, Some(I64(0))})
        \cup Variants(GoodEbs, {"iops"}, {Some(I64(3000)), Some(Succ64(I64(MaxInt32)))})

Ec2Configs ==
    {GoodEc2}
        \cup Variants(GoodEc2, {"region", "instance_type", "subnet_id"}, {Null, Some("")})
        \cup Variants(GoodEc2, {"volume_restore_params"}, {Null, Some(<<>>)})

RdsConfigs ==
    {GoodRds}
        \cup Variants(GoodRds, {"db_instance_identifier", "db_instance_class", "engine",
                                "region", "kms_key_id"}, {Null, Some("")})

S3BucketConfigs == {GoodS3Bucket} \cup Variants(GoodS3Bucket, {"bucket_name"}, {Null, Some("")})

S3FileConfigs ==
    {GoodS3File}
        \cup Variants(GoodS3File, {"bucket_name"}, {Null, Some("")})
        \cup Variants(GoodS3File, {"files"}, {Null, Some(<<>>)})

\* volume sizes around 0, around the GiB counts whose byte count leaves
\* int64 (2^33 and -2^33), and at the end of int64
VolumeSizes ==
    Near(I64(0)) \cup Near(<<0, 512, 0>>) \cup Near(<<-1, Limb - 512, 0>>)
        \cup Near(MaxInt64)

\* EC2 blocks with one or two volumes of those sizes
Ec2VolumeConfigs ==
    {[GoodEc2 EXCEPT !.volume_restore_params = Some(<<VolumeRestoreParam(v, i)>>)] :
        v \in {Null} \cup {Some(x) : x \in VolumeSizes},
        i \in {Null, Some(I64(3000)), Some(Succ64(I64(MaxInt32)))}}
    \cup {[GoodEc2 EXCEPT !.volume_restore_params =
                Some(<<VolumeRestoreParam(Some(I64(8)), Null), VolumeRestoreParam(Some(x), Null)>>)] :
            x \in VolumeSizes}

RestoreTypes == {"full", "partial", "incremental"}

RestorePlan(restoreType, ebs, ec2, rds, s3Bucket, s3File, waitForCompletion, timeoutMinutes) ==
    [restore_type |-> restoreType, snapshot_id |-> "snap-1", restore_account_id |-> "ra-1",
     ebs_config |-> ebs, ec2_config |-> ec2, rds_config |-> rds,
     s3_bucket_config |-> s3Bucket, s3_file_config |-> s3File,
     wait_for_completion |-> waitForCompletion, timeout_minutes |-> timeoutMinutes]

\* plans that do not wait: every combination of blocks present or absent, and
\* every variant of a single block
RestorePlansNoWait ==
    {RestorePlan(rt, ebs, ec2, rds, b, f, FALSE, 1) :
        rt \in RestoreTypes, ebs \in {Null, Some(GoodEbs)}, ec2 \in {Null, Some(GoodEc2)},
        rds \in {Null, Some(GoodRds)}, b \in {Null, Some(GoodS3Bucket)},
        f \in {Null, Some(GoodS3File)}}
    \cup {RestorePlan(rt, Some(c), Null, Null, Null, Null, FALSE, 1) :
            rt \in RestoreTypes, c \in EbsConfigs}
    \cup {RestorePlan(rt, Null, Some(c), Null, Null, Null, FALSE, 1) :
            rt \in RestoreTypes, c \in Ec2Configs}
    \cup {RestorePlan(rt, Null, Null, Some(c), Null, Null, FALSE, 1) :
            rt \in RestoreTypes, c \in RdsConfigs}
    \cup {RestorePlan(rt, Null, Null, Null, Some(c), Null, FALSE, 1) :
            rt \in RestoreTypes, c \in S3BucketConfigs}
    \cup {RestorePlan(rt, Null, Null, Null, Null, Some(c), FALSE, 1) :
            rt \in RestoreTypes, c \in S3FileConfigs}

\* plans that wait for the job: an EBS restore and a bucket restore
RestorePlansWait ==
    {RestorePlan("partial", Some(GoodEbs), Null, Null, Null, Null, TRUE, m) :
        m \in 0..MaxTimeoutMinutes}
    \cup {RestorePlan("full", Null, Null, Null, Some(GoodS3Bucket), Null, TRUE, m) :
            m \in 0..MaxTimeoutMinutes}

RestorePlans == RestorePlansNoWait \cup RestorePlansWait

\* resource types the inventory reports
ResourceTypes == {"AWS_EC2", "AWS_RDS", "AWS_S3", "AZURE_VM"}

\* job statuses the remote reports; "" is a job whose status is not set
JobStatuses ==
    {"", "JOB_PENDING", "JOB_RUNNING", "JOB_COMPLETED", "JOB_PARTIAL", "JOB_FAILED",
     "JOB_CANCELLED"}

TerminalStatuses == {"JOB_COMPLETED", "JOB_PARTIAL", "JOB_FAILED", "JOB_CANCELLED"}

\* the job a GetRestoreJob returns: a finished job carries its end time and
\* duration
RestoreJob(status, statusMessage) ==
    [status |-> status, status_message |-> statusMessage, created_time |-> 0,
     start_time |-> IF status \in {"", "JOB_PENDING"} THEN Null ELSE Some(0),
     end_time |-> IF status \in TerminalStatuses THEN Some(1) ELSE Null,
     duration_seconds |-> IF status \in TerminalStatuses THEN Some(60) ELSE Null]

RestoreJobs ==
    {RestoreJob(st, m) : st \in JobStatuses, m \in {Null, Some("disk full")}}

----------------------------------------------------------------------------
(* RestoreJobResource.Create and EonClient.WaitForRestoreJobCompletion.    *)
(* Create runs up to its start call in one step; when it waits, every      *)
(* round of the polling loop is a step, and the round in which the loop    *)
(* returns also runs the rest of Create.                                   *)

\* an error diagnostic
Diagnostic(summary, detail) == [summary |-> summary, detail |-> detail]

\* what Create has reported, and the client methods it has called itself
\* (the polls of WaitForRestoreJobCompletion are counted in wait)
RestoreResponse(errors, calls) == [errors |-> errors, calls |-> calls]

\* the record of the polling loop: ticks elapsed, ticks to the deadline, polls
\* made, the job the last poll fetched (Null when it failed), and the loop's
\* result once it has returned
NotWaiting == [elapsed |-> 0, deadline |-> 0, polls |-> 0, fetched |-> Null, result |-> Null]
WaitResult(job, err) == [job |-> job, err |-> err]

\* the computed fields Create sets once the job is started
Started(jobId, resourceId) ==
    [id |-> Some(jobId), job_id |-> Some(jobId), resource_id |-> Some(resourceId),
     status |-> Some("JOB_PENDING"), status_message |-> Null, created_at |-> Some(0),
     started_at |-> Null, completed_at |-> Null, duration_seconds |-> Null]

updateJobStatus(data, job) ==
    [data EXCEPT !.status = Some(job.status),
                 !.created_at = Some(job.created_time),
                 !.status_message = job.status_message,
                 !.started_at = job.start_time,
                 !.completed_at = job.end_time,
                 !.duration_seconds = job.duration_seconds]

\* FinishCreate had it returned on an error of the wait without more ado
FinishCreateOrGiveUp(result, actualJob) ==
    /\ rstate' = IF result.err # "" THEN Null
                 ELSE Some(updateJobStatus(Started("job-1", "res-1"), Val(result.job)))
    /\ rpc' = "done"
    /\ UNCHANGED rresp

\* Create after WaitForRestoreJobCompletion returned result: on an error the
\* status is overwritten and one more GetRestoreJob is tried, whose answer
\* (Null when it fails) refreshes the status fields; then the state is set
FinishCreate(result, actualJob) ==
    LET data == Started("job-1", "res-1")
    IN  /\ rstate' =
              Some(IF result.err # ""
                   THEN LET failed == [data EXCEPT !.status_message = Some(result.err),
                                                   !.status = Some("JOB_FAILED")]
                        IN  IF IsNull(actualJob) THEN failed
                            ELSE updateJobStatus(failed, Val(actualJob))
                   ELSE updateJobStatus(data, Val(result.job)))
        /\ rresp' = [rresp EXCEPT !.calls =
                        IF result.err # "" THEN Append(@, "GetRestoreJob") ELSE @]
        /\ rpc' = "done"

\* the final fetch is made only after an error: no answer to choose otherwise
ActualJobs(err) == IF err # "" THEN {Null} \cup {Some(j) : j \in RestoreJobs} ELSE {Null}

\* WaitReturns had the loop gone round instead of returning
WaitGoesOn(elapsed, polls, fetched, result) ==
    /\ wait' = [wait EXCEPT !.fetched = fetched]
    /\ UNCHANGED <<rpc, rresp, rstate>>

\* the loop returns result and Create runs to its end
WaitReturns(elapsed, polls, fetched, result) ==
    /\ wait' = [wait EXCEPT !.elapsed = elapsed, !.polls = polls, !.fetched = fetched,
                            !.result = Some(result)]
    /\ \E actualJob \in ActualJobs(result.err) : FinishCreate(result, actualJob)

\* the statuses on which the loop returns the job, and those on which it
\* returns the job with an error
SucceededOrUnfinished(status) == status \notin {"JOB_FAILED", "JOB_CANCELLED"}
Succeeded(status) == status \in {"JOB_COMPLETED", "JOB_PARTIAL"}
Failed(status) == status \in {"JOB_FAILED", "JOB_CANCELLED"}

\* JobFailedError without the status message
JobFailedErrorBare(job) == "restore job failed with status: " \o job.status

\* the error of a job that failed or was cancelled
JobFailedError(job) ==
    "restore job failed with status: " \o job.status \o ", error: "
        \o (IF IsNull(job.status_message) THEN "unknown error" ELSE Val(job.status_message))

\* case <-ticker.C: the next tick comes no later than the deadline; the
\* status is fetched, and the loop returns or goes round again
WaitPoll ==
    /\ rpc = "waiting"
    /\ wait.elapsed + 1 <= wait.deadline
    /\ \/ WaitReturns(wait.elapsed + 1, wait.polls + 1, Null,
                      WaitResult(Null, "failed to get restore job status"))
       \/ \E job \in RestoreJobs :
            IF Succeeded(job.status)
            THEN WaitReturns(wait.elapsed + 1, wait.polls + 1, Some(job),
                             WaitResult(Some(job), ""))
            ELSE IF Failed(job.status)
            THEN WaitReturns(wait.elapsed + 1, wait.polls + 1, Some(job),
                             WaitResult(Some(job), JobFailedError(job)))
            ELSE /\ wait' = [wait EXCEPT !.elapsed = @ + 1, !.polls = @ + 1,
                                         !.fetched = Some(job)]
                 /\ UNCHANGED <<rpc, rresp, rstate>>
    /\ UNCHANGED <<rdata, policyVars, transVars, clientVars, acctVars, concVars, mockVars>>

\* case <-ctx.Done(): the deadline has come (it comes with the tick that
\* falls on it, either of which select may take), or the caller's context
\* was cancelled
WaitDone ==
    /\ rpc = "waiting"
    /\ \E cancelled \in BOOLEAN :
        /\ cancelled \/ wait.elapsed + 1 >= wait.deadline
        /\ WaitReturns(IF cancelled THEN wait.elapsed ELSE wait.deadline,
                       wait.polls, wait.fetched,
                       WaitResult(Null, "timeout waiting for restore job job-1 to complete"))
    /\ UNCHANGED <<rdata, policyVars, transVars, clientVars, acctVars, concVars, mockVars>>

\* a Create: the plan, and the type the inventory holds for the snapshot's resource
RestoreRequest(data, resourceType) == [plan |-> data, resource_type |-> resourceType]

\* Create fails with one error diagnostic after the given client calls
CreateFails(summary, detail, calls) ==
    /\ rresp' = RestoreResponse(<<Diagnostic(summary, detail)>>, calls)
    /\ rpc' = "done"
    /\ UNCHANGED <<rstate, wait>>

\* RestoreJobResource.Create up to the start of the job and, when it does not
\* wait, to its end.  resourceType is the type the inventory reports.
RestoreCreate(data, resourceType) ==
    /\ rpc = "idle"
    /\ rdata' = Some(RestoreRequest(data, resourceType))
    /\ \/ CreateFails("Client Error", "Unable to retrieve snapshot", <<"GetSnapshot">>)
       \/ CreateFails("Client Error", "Unable to retrieve resource",
                      <<"GetSnapshot", "GetResourceById">>)
       \/ \E d \in {Dispatch(data, resourceType)} :
            LET calls == <<"GetSnapshot", "GetResourceById">>
            IN  IF data.restore_type \notin {"full", "partial"}
                THEN CreateFails("Configuration Error", "Invalid restore_type", calls)
                ELSE IF d.diag # ""
                THEN CreateFails("Configuration Error", d.diag, calls)
                ELSE IF d.outcome.err # ""
                THEN CreateFails("Client Error", d.outcome.err, calls)
                ELSE \/ CreateFails("Client Error", "API error",
                                    Append(calls, d.outcome.start))
                     \/ /\ rresp' = RestoreResponse(<<>>, Append(calls, d.outcome.start))
                        /\ IF data.wait_for_completion
                           THEN /\ rpc' = "waiting"
                                /\ wait' = [NotWaiting EXCEPT
                                               !.deadline = TicksOf(data.timeout_minutes)]
                                /\ UNCHANGED rstate
                           ELSE /\ rpc' = "done"
                                /\ rstate' = Some(Started("job-1", "res-1"))
                                /\ UNCHANGED wait
    /\ UNCHANGED <<policyVars, transVars, clientVars, acctVars, concVars, mockVars>>

RestoreInit ==
    /\ rpc = "idle"
    /\ rdata = Null
    /\ rresp = RestoreResponse(<<>>, <<>>)
    /\ rstate = Null
    /\ wait = NotWaiting

RestoreNext ==
    \/ \E data \in RestorePlans, resourceType \in ResourceTypes :
          RestoreCreate(data, resourceType)
    \/ WaitPoll
    \/ WaitDone

----------------------------------------------------------------------------
(* EonClient: the cached token and the check that begins every operation.  *)
(* Times are in seconds.                                                   *)

MaxNow == 3      \* the clock stops here
Margin == 30     \* seconds before the expiry at which a token counts as expired

\* the methods of EonClient that call the API
Operations ==
    {"ListSourceAccounts", "ListRestoreAccounts", "ConnectSourceAccount",
     "DisconnectSourceAccount", "ConnectRestoreAccount", "DisconnectRestoreAccount",
     "GetRestoreJob", "StartVolumeRestore", "GetResourceById", "StartRdsRestore",
     "StartEc2InstanceRestore", "StartS3BucketRestore", "StartS3FileRestore",
     "GetSnapshot", "ListBackupPolicies", "GetBackupPolicy", "CreateBackupPolicy",
     "UpdateBackupPolicy", "DeleteBackupPolicy"}

\* answers of GetAccessToken at time clock: a refusal, or a token (named by
\* the time of issue and its lifetime) with its ExpirationSeconds
AuthRefused == [ok |-> FALSE, access_token |-> <<>>, expiration_seconds |-> 0]
AuthGranted(clock, seconds) ==
    [ok |-> TRUE, access_token |-> <<clock, seconds>>, expiration_seconds |-> seconds]
AuthResponses(clock) ==
    {AuthRefused} \cup {AuthGranted(clock, e) : e \in {0, Margin + 1, Margin + 2}}

\* the client after a step, whether GetAccessToken was called, and the error
Authenticated(c, called, err) == [client |-> c, called |-> called, err |-> err]

authenticate(c, r) ==
    IF ~r.ok
    THEN Authenticated(c, TRUE, "authentication failed")
    ELSE Authenticated([c EXCEPT !.authToken = r.access_token,
                                 !.tokenExpiry = c.clock + r.expiration_seconds,
                                 !.header = r.access_token],
                       TRUE, "")

\* time.Now().After(tokenExpiry.Add(-30 * time.Second)), without the margin
ExpiredNoMargin(clock, tokenExpiry) == clock > tokenExpiry

\* time.Now().After(tokenExpiry.Add(-30 * time.Second))
Expired(clock, tokenExpiry) == clock > tokenExpiry - Margin

ensureValidToken(c, r) ==
    IF Expired(c.clock, c.tokenExpiry) THEN authenticate(c, r)
    ELSE Authenticated(c, FALSE, "")

\* the record of an operation: whether it authenticated, whether it issued
\* its API request and with which Authorization header, and its error
Operation(op, authenticated, issued, bearer, err) ==
    [op |-> op, authenticated |-> authenticated, issued |-> issued, bearer |-> bearer,
     err |-> err]

\* an operation of EonClient: r is what GetAccessToken would answer, apiOk
\* whether the API request succeeds
ClientCall(op, r, apiOk) ==
    /\ \E a \in {ensureValidToken(client, r)} :
          client' =
              [a.client EXCEPT !.last =
                  Some(IF a.err # ""
                       THEN Operation(op, a.called, FALSE, Null,
                                      "failed to ensure valid token: " \o a.err)
                       ELSE Operation(op, a.called, TRUE, Some(a.client.header),
                                      IF apiOk THEN "" ELSE "API error"))]
    /\ UNCHANGED <<policyVars, transVars, restoreVars, acctVars, concVars, mockVars>>

\* a second passes
ClientTick ==
    /\ client.clock < MaxNow
    /\ client' = [client EXCEPT !.clock = @ + 1]
    /\ UNCHANGED <<policyVars, transVars, restoreVars, acctVars, concVars, mockVars>>

\* NewEonClient has authenticated: a token that lasts a second over the margin
ClientInit ==
    client = [authenticate([clock |-> 0, authToken |-> <<>>, tokenExpiry |-> 0,
                            header |-> <<>>, last |-> Null],
                           AuthGranted(0, Margin + 1)).client
              EXCEPT !.last = Null]

ClientNext ==
    \/ \E op \in Operations, r \in AuthResponses(client.clock), apiOk \in BOOLEAN :
          ClientCall(op, r, apiOk)
    \/ ClientTick

----------------------------------------------------------------------------
(* SourceAccountResource and RestoreAccountResource: the two resources     *)
(* have the same handlers, but that the source account's Create and Read   *)
(* also take the name from the remote account.                             *)

MaxAccounts == 1     \* accounts the remote service connects for the resource

\* account 0 was connected to the project before, outside this configuration
AccountIds == 0..MaxAccounts
AccountKinds == {"source", "restore"}
ProviderAccountIds == {"111", "222"}

\* the configuration of an account resource
AccountPlan(name, providerAccountId, cloudProvider, role) ==
    [name |-> name, provider_account_id |-> providerAccountId,
     cloud_provider |-> cloudProvider, role |-> role]

AccountPlans ==
    {AccountPlan(n, p, c, r) :
        n \in {"prod", "prod-2"}, p \in ProviderAccountIds, c \in {"AWS", "AZURE", "GCP"},
        r \in {Null, Some(""), Some("arn:role/a"), Some("arn:role/b")}}

\* an account as the remote lists it; cloud_provider may be left out
RemoteAccount(id, name, status, providerAccountId, cloudProvider) ==
    [id |-> id, name |-> name, status |-> status,
     provider_account_id |-> providerAccountId, cloud_provider |-> cloudProvider]

\* the tracked state of an account resource
AccountState(id, data, account, name) ==
    [id |-> id,
     name |-> Some(name),
     provider_account_id |-> Some(account.provider_account_id),
     cloud_provider |-> IF IsNull(account.cloud_provider) THEN Some(data.cloud_provider)
                        ELSE account.cloud_provider,
     role |-> data.role,
     status |-> Some(account.status),
     created_at |-> Some(0),
     updated_at |-> Some(0)]

\* what a handler leaves behind: its plan (Null when it has none), its
\* diagnostics and the client calls it made
AccountResponse(kind, op, plan, errors, warnings, calls) ==
    [kind |-> kind, op |-> op, plan |-> plan, errors |-> errors, warnings |-> warnings,
     calls |-> calls]

\* the client methods of the two kinds of account
ConnectCall(kind) ==
    IF kind = "source" THEN "ConnectSourceAccount" ELSE "ConnectRestoreAccount"
ListCall(kind) == IF kind = "source" THEN "ListSourceAccounts" ELSE "ListRestoreAccounts"
DisconnectCall(kind) ==
    IF kind = "source" THEN "DisconnectSourceAccount" ELSE "DisconnectRestoreAccount"

\* a handler of the resource of this kind may run: the instance is of one kind
OfKind(kind) == acct.kind \in {"", kind}

\* a handler returns with error diagnostics, the state and the remote untouched
AcctFails(kind, op, plan, summary, calls) ==
    acct' = [acct EXCEPT !.kind = kind,
                         !.resp = Some(AccountResponse(kind, op, plan, <<summary>>, <<>>,
                                                       calls))]

\* CloudProvider.ValueString() != "AWS", had every provider been taken
UnsupportedNone(cloudProvider) == FALSE

\* CloudProvider.ValueString() != "AWS"
Unsupported(cloudProvider) == cloudProvider # "AWS"

AcctCreate(kind, data) ==
    /\ OfKind(kind)
    /\ IsNull(acct.state)
    /\ IF IsNull(data.role) \/ Val(data.role) = ""
       THEN AcctFails(kind, "Create", Some(data), "Missing Role", <<>>)
       ELSE IF Unsupported(data.cloud_provider)
       THEN AcctFails(kind, "Create", Some(data), "Unsupported Provider", <<>>)
       ELSE \/ AcctFails(kind, "Create", Some(data), "Client Error",
                         <<ConnectCall(kind)>>)
            \/ /\ acct.nextId < MaxAccounts
               /\ \E p \in ProviderAccountIds, c \in {Null, Some("AWS")} :
                    \E account \in {RemoteAccount(acct.nextId + 1, data.name, "CONNECTED",
                                                  p, c)} :
                        acct' =
                            [kind |-> kind,
                             nextId |-> account.id,
                             remote |-> [acct.remote EXCEPT ![account.id] = Some(account)],
                             state |-> Some(AccountState(
                                            account.id, data, account,
                                            IF kind = "source" THEN account.name
                                            ELSE data.name)),
                             resp |-> Some(AccountResponse(kind, "Create", Some(data), <<>>, <<>>,
                                                           <<ConnectCall(kind)>>))]
    /\ UNCHANGED <<policyVars, transVars, restoreVars, clientVars, concVars, mockVars>>

\* the accounts the list call returns
ListedAccounts == {Val(acct.remote[i]) : i \in {j \in AccountIds : ~IsNull(acct.remote[j])}}

\* the loop over the list, had it matched on the provider's account id
FoundByProviderAccountId(accounts, data) ==
    {a \in accounts : Some(a.provider_account_id) = data.provider_account_id}

\* the loop over the list: the accounts with the tracked id
Found(accounts, data) == {a \in accounts : a.id = data.id}

\* the fields Read refreshes from the account it found
RefreshedAccount(kind, data, account) ==
    [data EXCEPT !.name = IF kind = "source" THEN Some(account.name) ELSE @,
                 !.status = Some(account.status),
                 !.provider_account_id = Some(account.provider_account_id),
                 !.cloud_provider = IF IsNull(account.cloud_provider) THEN @
                                    ELSE account.cloud_provider]

AcctRead(kind) ==
    /\ OfKind(kind)
    /\ ~IsNull(acct.state)
    /\ \/ AcctFails(kind, "Read", Null, "Client Error", <<ListCall(kind)>>)
       \/ \E found \in {Found(ListedAccounts, Val(acct.state))} :
            acct' = [acct EXCEPT
                        !.kind = kind,
                        !.state = IF found = {} THEN Null
                                  ELSE Some(RefreshedAccount(kind, Val(acct.state),
                                                             CHOOSE a \in found : TRUE)),
                        !.resp = Some(AccountResponse(kind, "Read", Null, <<>>, <<>>,
                                                      <<ListCall(kind)>>))]
    /\ UNCHANGED <<policyVars, transVars, restoreVars, clientVars, concVars, mockVars>>

\* the plan the host hands to Update for a changed configuration: computed
\* attributes from the state, the rest from the configuration.  The host
\* calls Update only when no attribute marked RequiresReplace has changed.
UpdatePlan(data, config) ==
    [data EXCEPT !.name = Some(config.name),
                 !.provider_account_id = Some(config.provider_account_id),
                 !.cloud_provider = Some(config.cloud_provider),
                 !.role = config.role]

AcctUpdate(kind, config) ==
    /\ OfKind(kind)
    /\ ~IsNull(acct.state)
    /\ Some(config.provider_account_id) = Val(acct.state).provider_account_id
    /\ Some(config.cloud_provider) = Val(acct.state).cloud_provider
    /\ ~IsNull(config.role)
    /\ acct' = [acct EXCEPT
                   !.kind = kind,
                   !.state = Some(UpdatePlan(Val(acct.state), config)),
                   !.resp = Some(AccountResponse(kind, "Update", Some(config), <<>>,
                                                 <<"Update Not Supported">>, <<>>))]
    /\ UNCHANGED <<policyVars, transVars, restoreVars, clientVars, concVars, mockVars>>

\* Delete: the remote drops the account from its list or lists it as
\* DISCONNECTED; the host drops the state when no error is reported
AcctDelete(kind) ==
    /\ OfKind(kind)
    /\ ~IsNull(acct.state)
    /\ \/ AcctFails(kind, "Delete", Null, "Client Error", <<DisconnectCall(kind)>>)
       \/ /\ Val(acct.state).id \in AccountIds
          /\ ~IsNull(acct.remote[Val(acct.state).id])
          /\ \E after \in {Null, Some([Val(acct.remote[Val(acct.state).id])
                                          EXCEPT !.status = "DISCONNECTED"])} :
                acct' = [acct EXCEPT
                            !.kind = kind,
                            !.remote[Val(acct.state).id] = after,
                            !.state = Null,
                            !.resp = Some(AccountResponse(kind, "Delete", Null, <<>>, <<>>,
                                                          <<DisconnectCall(kind)>>))]
    /\ UNCHANGED <<policyVars, transVars, restoreVars, clientVars, concVars, mockVars>>

\* ImportState: ImportStatePassthroughID stores the id alone
AcctImportState(kind, id) ==
    /\ OfKind(kind)
    /\ IsNull(acct.state)
    /\ acct' = [acct EXCEPT
                   !.kind = kind,
                   !.state = Some([id |-> id, name |-> Null, provider_account_id |-> Null,
                                   cloud_provider |-> Null, role |-> Null, status |-> Null,
                                   created_at |-> Null, updated_at |-> Null]),
                   !.resp = Some(AccountResponse(kind, "ImportState", Null, <<>>, <<>>, <<>>))]
    /\ UNCHANGED <<policyVars, transVars, restoreVars, clientVars, concVars, mockVars>>

\* beside the provider: an account is disconnected at the remote, or the
\* remote finds its permissions insufficient
AcctRemoteChange(id) ==
    /\ ~IsNull(acct.remote[id])
    /\ \E after \in {Null, Some([Val(acct.remote[id])
                                    EXCEPT !.status = "INSUFFICIENT_PERMISSIONS"])} :
          /\ after # acct.remote[id]
          /\ acct' = [acct EXCEPT !.remote[id] = after]
    /\ UNCHANGED <<policyVars, transVars, restoreVars, clientVars, concVars, mockVars>>

AcctInit ==
    acct = [kind |-> "", nextId |-> 0,
            remote |-> [i \in AccountIds |->
                           IF i = 0
                           THEN Some(RemoteAccount(0, "legacy", "CONNECTED", "111", Some("AWS")))
                           ELSE Null],
            state |-> Null, resp |-> Null]

AcctNext ==
    \/ \E kind \in AccountKinds, data \in AccountPlans : AcctCreate(kind, data)
    \/ \E kind \in AccountKinds : AcctRead(kind)
    \/ \E kind \in AccountKinds, config \in AccountPlans : AcctUpdate(kind, config)
    \/ \E kind \in AccountKinds : AcctDelete(kind)
    \/ \E kind \in AccountKinds, id \in AccountIds : AcctImportState(kind, id)
    \/ \E id \in AccountIds : AcctRemoteChange(id)

----------------------------------------------------------------------------
(* EonClient called from several goroutines.  The struct has no mutex:     *)
(* ensureValidToken reads tokenExpiry, and authenticate writes authToken,  *)
(* tokenExpiry and the Authorization header, one statement after another   *)
(* with nothing held.  The Go runtime may end the process when a write to  *)
(* the DefaultHeader map meets another access to it.                       *)

NumCallers == 2   \* goroutines running operations on the one client
MaxTokens == 3    \* tokens the server grants before it only refuses

Callers == 1..NumCallers

\* a goroutine between operations
Between == [pc |-> "idle", resp |-> AuthRefused]

\* answers of GetAccessToken: a refusal, or the next token in the server's
\* count with its ExpirationSeconds
RaceResponses(c) ==
    {AuthRefused} \cup
    (IF c.issued < MaxTokens
     THEN {AuthGranted(c.issued + 1, e) : e \in {0, Margin + 1, Margin + 2}}
     ELSE {})

\* the process still runs
Running == conc.fatal = ""

\* an operation begins: ensureValidToken compares the clock with tokenExpiry
RaceEnsureValidToken(g) ==
    /\ Running
    /\ conc.go[g].pc = "idle"
    /\ conc' = [conc EXCEPT
                   !.go[g].pc = IF Expired(conc.clock, conc.tokenExpiry)
                                THEN "GetAccessToken" ELSE "Execute"]
    /\ UNCHANGED <<policyVars, transVars, restoreVars, clientVars, acctVars, mockVars>>

\* authenticate: GetAccessToken answers; a refusal ends the operation with
\* "failed to ensure valid token"
RaceGetAccessToken(g) ==
    /\ Running
    /\ conc.go[g].pc = "GetAccessToken"
    /\ \E r \in RaceResponses(conc) :
          conc' = IF ~r.ok
                  THEN [conc EXCEPT !.go[g] = Between]
                  ELSE [conc EXCEPT !.issued = @ + 1,
                                    !.go[g] = [pc |-> "authToken", resp |-> r]]
    /\ UNCHANGED <<policyVars, transVars, restoreVars, clientVars, acctVars, mockVars>>

\* c.authToken = resp.GetAccessToken()
RaceSetAuthToken(g) ==
    /\ Running
    /\ conc.go[g].pc = "authToken"
    /\ conc' = [conc EXCEPT !.authToken = conc.go[g].resp.access_token,
                            !.go[g].pc = "tokenExpiry"]
    /\ UNCHANGED <<policyVars, transVars, restoreVars, clientVars, acctVars, mockVars>>

\* c.tokenExpiry = time.Now().Add(resp.GetExpirationSeconds() seconds)
RaceSetTokenExpiry(g) ==
    /\ Running
    /\ conc.go[g].pc = "tokenExpiry"
    /\ conc' = [conc EXCEPT
                   !.tokenExpiry = conc.clock + conc.go[g].resp.expiration_seconds,
                   !.expiryOf = conc.go[g].resp.access_token,
                   !.go[g].pc = "header"]
    /\ UNCHANGED <<policyVars, transVars, restoreVars, clientVars, acctVars, mockVars>>

\* what the runtime may report when this goroutine's map write meets
\* another goroutine's write or read of the DefaultHeader map
MapFaults(g) ==
    {"concurrent map writes" : h \in {h \in Callers \ {g} : conc.go[h].pc = "header"}}
    \cup {"concurrent map read and map write" :
              h \in {h \in Callers \ {g} : conc.go[h].pc = "Execute"}}

\* DefaultHeader["Authorization"] = "Bearer " + c.authToken: the field is
\* read again here; a map write that meets another access may be fatal
RaceSetHeader(g) ==
    /\ Running
    /\ conc.go[g].pc = "header"
    /\ \E fatal \in {""} \cup MapFaults(g) :
          conc' = IF fatal # ""
                  THEN [conc EXCEPT !.fatal = fatal]
                  ELSE [conc EXCEPT !.header = conc.authToken, !.go[g].pc = "Execute"]
    /\ UNCHANGED <<policyVars, transVars, restoreVars, clientVars, acctVars, mockVars>>

\* the operation's API request goes out with the header and the operation
\* returns
RaceExecute(g) ==
    /\ Running
    /\ conc.go[g].pc = "Execute"
    /\ conc' = [conc EXCEPT !.go[g] = Between]
    /\ UNCHANGED <<policyVars, transVars, restoreVars, clientVars, acctVars, mockVars>>

\* a second passes
RaceTick ==
    /\ Running
    /\ conc.clock < MaxNow
    /\ conc' = [conc EXCEPT !.clock = @ + 1]
    /\ UNCHANGED <<policyVars, transVars, restoreVars, clientVars, acctVars, mockVars>>

\* NewEonClient has authenticated, alone, with the server's first token;
\* expiryOf is history, the token whose response tokenExpiry was taken from
ConcInit ==
    conc = [clock |-> 0,
            authToken |-> AuthGranted(0, Margin + 1).access_token,
            tokenExpiry |-> Margin + 1,
            expiryOf |-> AuthGranted(0, Margin + 1).access_token,
            header |-> AuthGranted(0, Margin + 1).access_token,
            issued |-> 0,
            fatal |-> "",
            go |-> [g \in Callers |-> Between]]

RaceNext ==
    \/ \E g \in Callers : RaceEnsureValidToken(g)
    \/ \E g \in Callers : RaceGetAccessToken(g)
    \/ \E g \in Callers : RaceSetAuthToken(g)
    \/ \E g \in Callers : RaceSetTokenExpiry(g)
    \/ \E g \in Callers : RaceSetHeader(g)
    \/ \E g \in Callers : RaceExecute(g)
    \/ RaceTick

----------------------------------------------------------------------------
(* MockEonClient: the in-memory client the unit tests run against.  Every  *)
(* method holds m.mu from entry to return.  ListBackupPolicies is followed *)
(* statement by statement, one goroutine per call; the other methods run   *)
(* their whole body in one step, which they can take only while the mutex  *)
(* is free.                                                                *)

MaxCalls == 3        \* calls counted, over all methods, before the model stops calling
NumGoroutines == 2   \* goroutines calling ListBackupPolicies

Goroutines == 1..NumGoroutines
MockOps == {"Create", "Read", "Update", "Delete", "List"}

\* fmt.Sprintf("mock-policy-%d", n): an id is kept as <<prefix, number>>
MockPolicyId(n) == <<"mock-policy-", n>>

\* ids the tests store with AddMockPolicy and ask for
MockIds == {MockPolicyId(1), MockPolicyId(2), <<"policy-", 0>>}

\* the text of an id
IdString(id) == id[1] \o ToString(id[2])

\* the decimal digits %d prints
RECURSIVE Digits(_)
Digits(n) == IF n < 10 THEN <<n>> ELSE Append(Digits(n \div 10), n % 10)

\* s < t on strings of digits, byte by byte
RECURSIVE DigitsLess(_, _)
DigitsLess(s, t) ==
    IF t = <<>> THEN FALSE
    ELSE IF s = <<>> THEN TRUE
    ELSE IF Head(s) # Head(t) THEN Head(s) < Head(t)
    ELSE DigitsLess(Tail(s), Tail(t))

\* policies[i].Id < policies[j].Id: "mock-policy-..." sorts before
\* "policy-..." on its first byte, equal prefixes on the digits
IdLess(a, b) ==
    IF a[1] # b[1] THEN a[1] = "mock-policy-" ELSE DigitsLess(Digits(a[2]), Digits(b[2]))

BackupPolicy(id, name, enabled) == [Id |-> id, Name |-> name, Enabled |-> enabled]

\* CreateBackupPolicyRequest / UpdateBackupPolicyRequest: Name and Enabled
MockRequests == {[Name |-> "test-policy", Enabled |-> TRUE],
                 [Name |-> "updated-policy", Enabled |-> FALSE]}

\* policies the tests hand to AddMockPolicy
MockPolicies == {BackupPolicy(id, "test-policy", TRUE) : id \in MockIds}

\* m.BackupPolicies[id] = policy
Put(policies, id, policy) ==
    [i \in DOMAIN policies \cup {id} |-> IF i = id THEN policy ELSE policies[i]]

\* delete(m.BackupPolicies, id)
RemoveNothing(policies, id) == policies
Remove(policies, id) == [i \in DOMAIN policies \ {id} |-> policies[i]]

\* make(map[string]*BackupPolicy)
NoPolicies == [i \in {} |-> Null]

\* sort.Slice(policies, by Id): the least id first, then the rest
RECURSIVE SortById(_)
SortById(policies) ==
    IF policies = <<>> THEN <<>>
    ELSE LET least == CHOOSE i \in DOMAIN policies :
                          \A j \in DOMAIN policies :
                              j = i \/ ~IdLess(policies[j].Id, policies[i].Id)
             rest == [k \in 1..(Len(policies) - 1) |->
                         IF k < least THEN policies[k] ELSE policies[k + 1]]
         IN  <<policies[least]>> \o SortById(rest)

\* what a call handed back to its caller: err is "" for nil
MockResult(op, id, policy, policies, err) ==
    [op |-> op, id |-> id, policy |-> policy, policies |-> policies, err |-> err]

\* a goroutine outside ListBackupPolicies
Resting == [pc |-> "idle", n |-> 0, policies |-> <<>>]

\* m.mu.Lock() returns once no call holds the mutex
CanLockAlways(m) == TRUE
CanLock(m) == m.mu = 0

\* the model calls on while fewer than MaxCalls calls are counted
Budget(m) ==
    m.Calls["Create"] + m.Calls["Read"] + m.Calls["Update"] + m.Calls["Delete"]
        + m.Calls["List"] < MaxCalls

\* m.CreateCalls++ and its fellows
Counted(m, op) == [m EXCEPT !.Calls[op] = @ + 1]

\* CreateBackupPolicy
MockCreate(req) ==
    /\ CanLock(mock)
    /\ Budget(mock)
    /\ \E id \in {MockPolicyId(mock.Calls["Create"] + 1)} :
          mock' = IF mock.ShouldFail["Create"]
                  THEN [Counted(mock, "Create") EXCEPT
                           !.last = MockResult("Create", Null, Null, <<>>, "mock create error")]
                  ELSE [Counted(mock, "Create") EXCEPT
                           !.BackupPolicies =
                               Put(@, id, BackupPolicy(id, req.Name, req.Enabled)),
                           !.last = MockResult("Create", Null,
                                               Some(BackupPolicy(id, req.Name, req.Enabled)),
                                               <<>>, "")]
    /\ UNCHANGED <<policyVars, transVars, restoreVars, clientVars, acctVars, concVars>>

\* ReadBackupPolicy, and GetBackupPolicy which calls it
MockRead(id) ==
    /\ CanLock(mock)
    /\ Budget(mock)
    /\ mock' = [Counted(mock, "Read") EXCEPT
                   !.last =
                       IF mock.ShouldFail["Read"]
                       THEN MockResult("Read", Some(id), Null, <<>>, "mock read error")
                       ELSE IF id \notin DOMAIN mock.BackupPolicies
                       THEN MockResult("Read", Some(id), Null, <<>>,
                                       "backup policy not found: " \o IdString(id))
                       ELSE MockResult("Read", Some(id), Some(mock.BackupPolicies[id]),
                                       <<>>, "")]
    /\ UNCHANGED <<policyVars, transVars, restoreVars, clientVars, acctVars, concVars>>

\* UpdateBackupPolicy
MockUpdate(id, req) ==
    /\ CanLock(mock)
    /\ Budget(mock)
    /\ mock' = IF mock.ShouldFail["Update"]
               THEN [Counted(mock, "Update") EXCEPT
                        !.last = MockResult("Update", Some(id), Null, <<>>,
                                            "mock update error")]
               ELSE IF id \notin DOMAIN mock.BackupPolicies
               THEN [Counted(mock, "Update") EXCEPT
                        !.last = MockResult("Update", Some(id), Null, <<>>,
                                            "backup policy not found: " \o IdString(id))]
               ELSE LET policy == [mock.BackupPolicies[id] EXCEPT
                                      !.Name = req.Name, !.Enabled = req.Enabled]
                    IN  [Counted(mock, "Update") EXCEPT
                            !.BackupPolicies = Put(@, id, policy),
                            !.last = MockResult("Update", Some(id), Some(policy), <<>>, "")]
    /\ UNCHANGED <<policyVars, transVars, restoreVars, clientVars, acctVars, concVars>>

\* DeleteBackupPolicy
MockDelete(id) ==
    /\ CanLock(mock)
    /\ Budget(mock)
    /\ mock' = IF mock.ShouldFail["Delete"]
               THEN [Counted(mock, "Delete") EXCEPT
                        !.last = MockResult("Delete", Some(id), Null, <<>>,
                                            "mock delete error")]
               ELSE IF id \notin DOMAIN mock.BackupPolicies
               THEN [Counted(mock, "Delete") EXCEPT
                        !.last = MockResult("Delete", Some(id), Null, <<>>,
                                            "backup policy not found: " \o IdString(id))]
               ELSE [Counted(mock, "Delete") EXCEPT
                        !.BackupPolicies = Remove(@, id),
                        !.last = MockResult("Delete", Some(id), Null, <<>>, "")]
    /\ UNCHANGED <<policyVars, transVars, restoreVars, clientVars, acctVars, concVars>>

\* Reset: an empty store, counters at zero, no failure asked for
MockReset ==
    /\ CanLock(mock)
    /\ mock' = [mock EXCEPT
                   !.BackupPolicies = NoPolicies,
                   !.Calls = [op \in MockOps |-> 0],
                   !.ShouldFail = [op \in MockOps |-> FALSE],
                   !.made = 0,
                   !.last = MockResult("Reset", Null, Null, <<>>, "")]
    /\ UNCHANGED <<policyVars, transVars, restoreVars, clientVars, acctVars, concVars>>

\* AddMockPolicy
MockAddMockPolicy(policy) ==
    /\ CanLock(mock)
    /\ mock' = [mock EXCEPT
                   !.BackupPolicies = Put(@, policy.Id, policy),
                   !.last = MockResult("AddMockPolicy", Some(policy.Id), Null, <<>>, "")]
    /\ UNCHANGED <<policyVars, transVars, restoreVars, clientVars, acctVars, concVars>>

\* GetMockPolicy: the policy and whether it exists, under the read lock
MockGetMockPolicy(id) ==
    /\ CanLock(mock)
    /\ mock' = [mock EXCEPT
                   !.last = MockResult("GetMockPolicy", Some(id),
                                       IF id \in DOMAIN mock.BackupPolicies
                                       THEN Some(mock.BackupPolicies[id]) ELSE Null,
                                       <<>>, "")]
    /\ UNCHANGED <<policyVars, transVars, restoreVars, clientVars, acctVars, concVars>>

\* a test writes one of the ShouldFail fields, between calls; the tests ask
\* for one failure at a time
MockSetShouldFail(op, fail) ==
    /\ \A g \in Goroutines : mock.go[g].pc = "idle"
    /\ mock.ShouldFail[op] # fail
    /\ fail => \A other \in MockOps : ~mock.ShouldFail[other]
    /\ mock' = [mock EXCEPT !.ShouldFail[op] = fail]
    /\ UNCHANGED <<policyVars, transVars, restoreVars, clientVars, acctVars, concVars>>

\* a goroutine calls ListBackupPolicies: m.mu.Lock() returns once the mutex
\* is free
ListLock(g) ==
    /\ mock.go[g].pc = "idle"
    /\ Budget(mock)
    /\ CanLock(mock)
    /\ mock' = [mock EXCEPT !.mu = g, !.go[g].pc = "load", !.made = @ + 1]
    /\ UNCHANGED <<policyVars, transVars, restoreVars, clientVars, acctVars, concVars>>

\* m.ListCalls++ reads the counter ...
ListLoad(g) ==
    /\ mock.go[g].pc = "load"
    /\ mock' = [mock EXCEPT !.go[g].n = mock.Calls["List"], !.go[g].pc = "store"]
    /\ UNCHANGED <<policyVars, transVars, restoreVars, clientVars, acctVars, concVars>>

\* ... and writes it back one higher; then the ShouldFailList branch, which
\* returns the error and releases the mutex
ListStore(g) ==
    /\ mock.go[g].pc = "store"
    /\ mock' = IF mock.ShouldFail["List"]
               THEN [mock EXCEPT
                        !.Calls["List"] = mock.go[g].n + 1,
                        !.mu = 0,
                        !.go[g] = Resting,
                        !.last = MockResult("List", Null, Null, <<>>, "mock list error")]
               ELSE [mock EXCEPT
                        !.Calls["List"] = mock.go[g].n + 1,
                        !.go[g].pc = "range"]
    /\ UNCHANGED <<policyVars, transVars, restoreVars, clientVars, acctVars, concVars>>

\* ids the range loop has not visited yet
Unvisited(m, g) ==
    DOMAIN m.BackupPolicies \ {m.go[g].policies[i].Id : i \in DOMAIN m.go[g].policies}

\* one iteration of the range loop, in the map's own order
ListRange(g) ==
    /\ mock.go[g].pc = "range"
    /\ \E id \in Unvisited(mock, g) :
          mock' = [mock EXCEPT !.go[g].policies = Append(@, mock.BackupPolicies[id])]
    /\ UNCHANGED <<policyVars, transVars, restoreVars, clientVars, acctVars, concVars>>

\* the loop is over: sort by id, return, release the mutex
ListReturn(g) ==
    /\ mock.go[g].pc = "range"
    /\ Unvisited(mock, g) = {}
    /\ mock' = [mock EXCEPT
                   !.mu = 0,
                   !.go[g] = Resting,
                   !.last = MockResult("List", Null, Null, SortById(mock.go[g].policies), "")]
    /\ UNCHANGED <<policyVars, transVars, restoreVars, clientVars, acctVars, concVars>>

\* NewMockEonClient; made is history, the calls of ListBackupPolicies entered
\* since construction or Reset
MockInit ==
    mock = [mu |-> 0,
            BackupPolicies |-> NoPolicies,
            ShouldFail |-> [op \in MockOps |-> FALSE],
            Calls |-> [op \in MockOps |-> 0],
            go |-> [g \in Goroutines |-> Resting],
            made |-> 0,
            last |-> MockResult("", Null, Null, <<>>, "")]

MockNext ==
    \/ \E req \in MockRequests : MockCreate(req)
    \/ \E id \in MockIds : MockRead(id)
    \/ \E id \in MockIds, req \in MockRequests : MockUpdate(id, req)
    \/ \E id \in MockIds : MockDelete(id)
    \/ MockReset
    \/ \E policy \in MockPolicies : MockAddMockPolicy(policy)
    \/ \E id \in MockIds : MockGetMockPolicy(id)
    \/ \E op \in MockOps, fail \in BOOLEAN : MockSetShouldFail(op, fail)
    \/ \E g \in Goroutines : ListLock(g)
    \/ \E g \in Goroutines : ListLoad(g)
    \/ \E g \in Goroutines : ListStore(g)
    \/ \E g \in Goroutines : ListRange(g)
    \/ \E g \in Goroutines : ListReturn(g)


----------------------------------------------------------------------------
(* The reconciler of one backup-policy resource instance.                  *)

\* SpecTrans's record of a call; Idle before any
Idle == [fn |-> "", in |-> Null, out |-> Null]

Called(fn, in, out) == [fn |-> fn, in |-> in, out |-> out]

MaxIds == 1      \* policies the remote service creates
MaxClock == 1    \* seconds the wall clock advances

Ids == 1..MaxIds

\* plan documents the host hands to Create and Update
NoKeys == [k \in TopKeys |-> Null]
NoOperandKeys == [k \in OperandKeys |-> Null]

ResourceTypeOperand ==
    [NoOperandKeys EXCEPT !["resource_type"] = Some([operator |-> "IN", values |-> <<"AWS_EC2">>])]

GroupOf(operands) ==
    [NoKeys EXCEPT !["group"] = Some([operator |-> "AND", operands |-> operands])]

PlanExpressions == {NoKeys, GroupOf(<<>>), GroupOf(<<ResourceTypeOperand>>)}

PlanSelectors ==
    {Selector("ALL", Null), Selector("CONDITIONAL", Null)}
        \cup {Selector("CONDITIONAL", Some(x)) : x \in PlanExpressions}

DailyCfg ==
    [frequency |-> "DAILY",
     daily_config |-> Some([time_of_day_hour |-> Some(I64(2)),
                            time_of_day_minutes |-> Some(I64(0)),
                            start_window_minutes |-> Some(I64(240))]),
     interval_config |-> Null]

IntervalCfg ==
    [frequency |-> "INTERVAL",
     daily_config |-> Null,
     interval_config |-> Some([interval_minutes |-> Some(I64(30)),
                               start_window_minutes |-> Null])]

StandardPlan(type, schedules) ==
    [backup_policy_type |-> type,
     standard_plan |-> Some([backup_schedules |-> schedules]),
     high_frequency_plan |-> Null]

HighFrequencyPlan(types, schedules) ==
    [backup_policy_type |-> "HIGH_FREQUENCY",
     standard_plan |-> Null,
     high_frequency_plan |-> Some([resource_types |-> types, backup_schedules |-> schedules])]

PlanBackupPlans ==
    {StandardPlan("STANDARD", <<Schedule("v1", I64(30), DailyCfg)>>),
     StandardPlan("PITR", <<Schedule("v1", I64(30), DailyCfg)>>),
     StandardPlan("STANDARD", <<Schedule("v1", Succ64(I64(MaxInt32)), DailyCfg)>>),
     StandardPlan("STANDARD", <<Schedule("v1", I64(30), IntervalCfg)>>),
     [backup_policy_type |-> "STANDARD", standard_plan |-> Null, high_frequency_plan |-> Null],
     [backup_policy_type |-> "UNSPECIFIED", standard_plan |-> Null, high_frequency_plan |-> Null],
     HighFrequencyPlan(<<"AWS_S3">>, <<Schedule("v1", I64(7), IntervalCfg)>>),
     HighFrequencyPlan(<<>>, <<Schedule("v1", I64(7), IntervalCfg)>>)}

PlanDoc(selector, backupPlan) ==
    [name |-> "p", enabled |-> TRUE, resource_selector |-> selector, backup_plan |-> backupPlan]

\* every selector with the plain STANDARD plan, every plan with the ALL selector
PlanDocs ==
    {PlanDoc(sel, StandardPlan("STANDARD", <<Schedule("v1", I64(30), DailyCfg)>>)) :
        sel \in PlanSelectors}
    \cup {PlanDoc(Selector("ALL", Null), bp) : bp \in PlanBackupPlans}

\* one call of the API client as the handler saw it
ApiCall(api, status) == [api |-> api, status |-> status]

\* what a handler leaves behind: its name, its plan, the summaries of its
\* error diagnostics and the client calls it made
Response(op, plan, errors, calls) ==
    [op |-> op, plan |-> plan, errors |-> errors, calls |-> calls]

\* the tracked state Create and Update store
Tracked(id, policy, data, createdAt, updatedAt) ==
    [id |-> id,
     name |-> Some(policy.name),
     enabled |-> Some(policy.enabled),
     resource_selector |-> Some(data.resource_selector),
     backup_plan |-> Some(data.backup_plan),
     created_at |-> Some(createdAt),
     updated_at |-> Some(updatedAt)]

\* the two time.Now() reads of a handler: the second may fall a second later
Stamps == {<<now, t>> : t \in {now, IF now < MaxClock THEN now + 1 ELSE now}}

\* the remote's policy for a request
PolicyOf(id, req) ==
    [id |-> id, name |-> req.name, enabled |-> req.enabled,
     resource_selector |-> req.resource_selector, backup_plan |-> req.backup_plan]

\* RemoteFailed had the handler stored its plan all the same
RemoteFailedStoring(op, plan, summary, api, status) ==
    /\ resp' = Some(Response(op, Some(plan), <<summary>>, <<ApiCall(api, status)>>))
    /\ state' = Some(Tracked(0, [name |-> "", enabled |-> FALSE], plan, now, now))
    /\ UNCHANGED <<remote, written, nextId, now>>

\* what Create and Update do when the remote call fails: an error
\* diagnostic and a return before the state is set
RemoteFailed(op, plan, summary, api, status) ==
    /\ resp' = Some(Response(op, Some(plan), <<summary>>, <<ApiCall(api, status)>>))
    /\ UNCHANGED <<state, remote, written, nextId, now>>

\* Create: translate, call CreateBackupPolicy, store the assigned id
Create(data) ==
    /\ IsNull(state)
    /\ \E t \in {BuildRequest(data)} :
           IF t.err # ""
           THEN /\ resp' = Some(Response("Create", Some(data), <<t.err>>, <<>>))
                /\ UNCHANGED <<state, remote, written, nextId, now>>
           ELSE \/ RemoteFailed("Create", data, "Client Error", "CreateBackupPolicy", 500)
                \/ /\ nextId < MaxIds
                   /\ \E st \in Stamps, id \in {nextId + 1} :
                        \E policy \in {PolicyOf(id, Val(t.req))} :
                            /\ remote' = [remote EXCEPT ![id] = Some(policy)]
                            /\ nextId' = id
                            /\ state' = Some(Tracked(id, policy, data, st[1], st[2]))
                            /\ written' = [written EXCEPT ![id] = Some(data)]
                            /\ now' = st[2]
                            /\ resp' = Some(Response("Create", Some(data), <<>>,
                                                     <<ApiCall("CreateBackupPolicy", 201)>>))
    /\ UNCHANGED <<transVars, restoreVars, clientVars, acctVars, concVars, mockVars>>

\* ReadState had it also rebuilt the selector and the plan from the remote
ReadStateRebuilding(data, policy, createdAt, updatedAt) ==
    [data EXCEPT !.id = policy.id,
                 !.name = Some(policy.name),
                 !.enabled = Some(policy.enabled),
                 !.resource_selector = Some(policy.resource_selector),
                 !.backup_plan = Some(policy.backup_plan),
                 !.created_at = Some(createdAt),
                 !.updated_at = Some(updatedAt)]

\* the fields Read refreshes from the remote policy
ReadState(data, policy, createdAt, updatedAt) ==
    [data EXCEPT !.id = policy.id,
                 !.name = Some(policy.name),
                 !.enabled = Some(policy.enabled),
                 !.created_at = Some(createdAt),
                 !.updated_at = Some(updatedAt)]

\* what Read does when GetBackupPolicy fails, a 404 included: an error
\* diagnostic, the state left as it was
ReadFailed(data, status) ==
    /\ resp' = Some(Response("Read", Null, <<"Client Error">>,
                             <<ApiCall("GetBackupPolicy", status)>>))
    /\ UNCHANGED <<state, remote, written, nextId, now>>

Read ==
    /\ ~IsNull(state)
    /\ LET data == Val(state)
       IN  \/ /\ ~IsNull(remote[data.id])
              /\ \E st \in Stamps :
                    /\ state' = Some(ReadState(data, Val(remote[data.id]), st[1], st[2]))
                    /\ now' = st[2]
                    /\ resp' = Some(Response("Read", Null, <<>>,
                                             <<ApiCall("GetBackupPolicy", 200)>>))
                    /\ UNCHANGED <<remote, written, nextId>>
           \/ /\ ~IsNull(remote[data.id])
              /\ ReadFailed(data, 500)
           \/ /\ IsNull(remote[data.id])
              /\ ReadFailed(data, 404)
    /\ UNCHANGED <<transVars, restoreVars, clientVars, acctVars, concVars, mockVars>>

\* Update: translate the plan, call UpdateBackupPolicy with the state's id,
\* store the plan with both timestamps stamped from the clock
Update(plan) ==
    /\ ~IsNull(state)
    /\ \E data \in {Val(state)}, t \in {BuildRequest(plan)} :
           IF t.err # ""
           THEN /\ resp' = Some(Response("Update", Some(plan), <<t.err>>, <<>>))
                /\ UNCHANGED <<state, remote, written, nextId, now>>
           ELSE \/ RemoteFailed("Update", plan, "Error updating backup policy",
                                "UpdateBackupPolicy",
                                IF IsNull(remote[data.id]) THEN 404 ELSE 500)
                \/ /\ ~IsNull(remote[data.id])
                   /\ \E st \in Stamps, policy \in {PolicyOf(data.id, Val(t.req))} :
                            /\ remote' = [remote EXCEPT ![data.id] = Some(policy)]
                            /\ state' = Some(Tracked(data.id, policy, plan, st[1], st[2]))
                            /\ written' = [written EXCEPT ![data.id] = Some(plan)]
                            /\ now' = st[2]
                            /\ resp' = Some(Response("Update", Some(plan), <<>>,
                                                     <<ApiCall("UpdateBackupPolicy", 200)>>))
                            /\ UNCHANGED nextId
    /\ UNCHANGED <<transVars, restoreVars, clientVars, acctVars, concVars, mockVars>>

\* Delete: call DeleteBackupPolicy; the host drops the state when the
\* handler reports no error
Delete ==
    /\ ~IsNull(state)
    /\ LET data == Val(state)
       IN  \/ /\ ~IsNull(remote[data.id])
              /\ remote' = [remote EXCEPT ![data.id] = Null]
              /\ state' = Null
              /\ resp' = Some(Response("Delete", Null, <<>>,
                                       <<ApiCall("DeleteBackupPolicy", 204)>>))
              /\ UNCHANGED <<written, nextId, now>>
           \/ /\ resp' = Some(Response("Delete", Null, <<"Client Error">>,
                                       <<ApiCall("DeleteBackupPolicy",
                                                 IF IsNull(remote[data.id]) THEN 404 ELSE 500)>>))
              /\ UNCHANGED <<state, remote, written, nextId, now>>
    /\ UNCHANGED <<transVars, restoreVars, clientVars, acctVars, concVars, mockVars>>

\* ImportState: ImportStatePassthroughID stores the id alone
ImportState(id) ==
    /\ IsNull(state)
    /\ state' = Some([id |-> id, name |-> Null, enabled |-> Null,
                      resource_selector |-> Null, backup_plan |-> Null,
                      created_at |-> Null, updated_at |-> Null])
    /\ resp' = Some(Response("ImportState", Null, <<>>, <<>>))
    /\ UNCHANGED <<remote, written, nextId, now, call, restoreVars, clientVars, acctVars, concVars, mockVars>>

\* the host stops tracking the policy (terraform state rm); no handler runs
\* and the remote keeps the policy, which ImportState can adopt again
StateRm ==
    /\ ~IsNull(state)
    /\ state' = Null
    /\ resp' = Null
    /\ UNCHANGED <<remote, written, nextId, now, call, restoreVars, clientVars, acctVars, concVars, mockVars>>

\* the policy is deleted on the remote behind the provider's back
RemoteDelete(id) ==
    /\ ~IsNull(remote[id])
    /\ remote' = [remote EXCEPT ![id] = Null]
    /\ UNCHANGED <<state, resp, written, nextId, now, call, restoreVars, clientVars, acctVars, concVars, mockVars>>

\* the wall clock advances between handlers
Tick ==
    /\ now < MaxClock
    /\ now' = now + 1
    /\ UNCHANGED <<state, remote, resp, written, nextId, call, restoreVars, clientVars, acctVars, concVars, mockVars>>

PolicyInit ==
    /\ state = Null
    /\ remote = [id \in Ids |-> Null]
    /\ resp = Null
    /\ written = [id \in Ids |-> Null]
    /\ nextId = 0
    /\ now = 0

Init ==
    /\ PolicyInit /\ call = Idle /\ RestoreInit /\ ClientInit
    /\ AcctInit /\ ConcInit /\ MockInit

Next ==
    \/ \E data \in PlanDocs : Create(data)
    \/ Read
    \/ \E plan \in PlanDocs : Update(plan)
    \/ Delete
    \/ \E id \in Ids : ImportState(id)
    \/ StateRm
    \/ \E id \in Ids : RemoteDelete(id)
    \/ Tick

Spec == Init /\ [][Next]_vars

----------------------------------------------------------------------------
(* SpecTrans: one translation function applied to one bounded input.       *)

CallSafeInt32Conversion ==
    /\ call = Idle
    /\ \E v \in Int64Inputs :
        call' = Called("SafeInt32Conversion", v, SafeInt32Conversion(v))
    /\ UNCHANGED <<policyVars, restoreVars, clientVars, acctVars, concVars, mockVars>>

CallCreateBackupPolicyExpression ==
    /\ call = Idle
    /\ \E e \in {Null} \cup {Some(d) : d \in ExpressionDocs} :
        LET data == Selector("CONDITIONAL", e)
        IN  call' = Called("createBackupPolicyExpression", data,
                           createBackupPolicyExpression(data))
    /\ UNCHANGED <<policyVars, restoreVars, clientVars, acctVars, concVars, mockVars>>

CallCreateStandardScheduleConfig ==
    /\ call = Idle
    /\ \E c \in StandardScheduleConfigDocs :
        LET schedule == Schedule("v1", I64(30), c)
        IN  call' = Called("createStandardScheduleConfig", schedule,
                           createStandardScheduleConfig(schedule))
    /\ UNCHANGED <<policyVars, restoreVars, clientVars, acctVars, concVars, mockVars>>

CallCreateHighFrequencyScheduleConfig ==
    /\ call = Idle
    /\ \E c \in HighFrequencyScheduleConfigDocs :
        LET schedule == Schedule("v1", I64(30), c)
        IN  call' = Called("createHighFrequencyScheduleConfig", schedule,
                           createHighFrequencyScheduleConfig(schedule))
    /\ UNCHANGED <<policyVars, restoreVars, clientVars, acctVars, concVars, mockVars>>

CallCreateDailyConfigFromModel ==
    /\ call = Idle
    /\ \E d \in DailyConfigDocs :
        call' = Called("createDailyConfigFromModel", d, createDailyConfigFromModel(d))
    /\ UNCHANGED <<policyVars, restoreVars, clientVars, acctVars, concVars, mockVars>>

CallCreateEc2InstanceRestore ==
    /\ call = Idle
    /\ \E c \in Ec2VolumeConfigs :
        LET data == RestorePlan("full", Null, Some(c), Null, Null, Null, FALSE, 1)
        IN  call' = Called("createEc2InstanceRestore", data, createEc2InstanceRestore(data))
    /\ UNCHANGED <<policyVars, restoreVars, clientVars, acctVars, concVars, mockVars>>

TransInit ==
    /\ call = Idle /\ PolicyInit /\ RestoreInit /\ ClientInit
    /\ AcctInit /\ ConcInit /\ MockInit

TransNext ==
    \/ CallSafeInt32Conversion
    \/ CallCreateBackupPolicyExpression
    \/ CallCreateStandardScheduleConfig
    \/ CallCreateHighFrequencyScheduleConfig
    \/ CallCreateDailyConfigFromModel
    \/ CallCreateEc2InstanceRestore

SpecTrans == TransInit /\ [][TransNext]_vars

----------------------------------------------------------------------------
(* SpecRestore: one Create of a restore job.  SpecRestoreFair adds that    *)
(* the runtime delivers the ticker's ticks and the context's deadline, so  *)
(* a select that has a ready case is taken.                                *)

SpecRestore == Init /\ [][RestoreNext]_vars

SpecRestoreFair == SpecRestore /\ WF_vars(WaitPoll \/ WaitDone)

----------------------------------------------------------------------------
(* SpecClient: operations on one EonClient, one after another, as the      *)
(* clock advances.                                                         *)

SpecClient == Init /\ [][ClientNext]_vars

----------------------------------------------------------------------------
(* SpecAccount: the handlers of one source or restore account resource,    *)
(* called by the host, and the remote's accounts changing beside them.     *)

SpecAccount == Init /\ [][AcctNext]_vars
SpecMock == Init /\ [][MockNext]_vars
SpecRace == Init /\ [][RaceNext]_vars

----------------------------------------------------------------------------
(* Properties of the reconciler (Spec).                                    *)

\* the last handler, if any, was op
Ran(op) == ~IsNull(resp) /\ Val(resp).op = op

\* the last handler was a Create or Update of a document for which P holds
Wrote(P(_)) ==
    /\ ~IsNull(resp)
    /\ Val(resp).op \in {"Create", "Update"}
    /\ P(Val(Val(resp).plan))

ConditionalWithoutExpression(plan) ==
    /\ plan.resource_selector.resource_selection_mode = "CONDITIONAL"
    /\ IsNull(plan.resource_selector.expression)

\* C1: a Create or Update of a document whose resource_selection_mode is
\* CONDITIONAL and whose expression is null reports an error diagnostic and
\* makes no remote call.
C1_ConditionalRequiresExpression ==
    Wrote(ConditionalWithoutExpression)
        => Val(resp).errors # <<>> /\ Val(resp).calls = <<>>

HighFrequencyWithoutResourceTypes(plan) ==
    /\ plan.backup_plan.backup_policy_type = "HIGH_FREQUENCY"
    /\ ~IsNull(plan.backup_plan.high_frequency_plan)
    /\ Val(plan.backup_plan.high_frequency_plan).resource_types = <<>>

\* C5: a Create or Update of a HIGH_FREQUENCY document with an empty
\* resource_types list reports an error diagnostic and makes no remote call.
C5_HighFrequencyNeedsResourceTypes ==
    Wrote(HighFrequencyWithoutResourceTypes)
        => Val(resp).errors # <<>> /\ Val(resp).calls = <<>>

\* C4: round trip.  After a Read that succeeded, the tracked resource
\* selector (with its expression) and the tracked backup plan (with its
\* schedules) are the ones last written to the remote for that id.
C4_RoundTrip ==
    (Ran("Read") /\ Val(resp).errors = <<>> /\ ~IsNull(state)
        /\ ~IsNull(written[Val(state).id]))
        => LET e == Val(written[Val(state).id])
           IN  /\ Val(state).resource_selector = Some(e.resource_selector)
               /\ Val(state).backup_plan = Some(e.backup_plan)

\* C9: after a Read that the remote answered with 404 the policy is no longer
\* tracked and no error diagnostic is reported.
C9_ReadNotFoundDropsState ==
    (Ran("Read") /\ Val(resp).calls = <<ApiCall("GetBackupPolicy", 404)>>)
        => IsNull(state) /\ Val(resp).errors = <<>>

\* C10: a Delete that the remote answered with 404, the policy being absent
\* already, reports no error diagnostic.
C10_DeleteIsIdempotent ==
    (Ran("Delete") /\ Val(resp).calls = <<ApiCall("DeleteBackupPolicy", 404)>>)
        => Val(resp).errors = <<>>

\* C11: a successful Update leaves the created_at of the tracked policy as it
\* was, so that it stays the one Create stored.
C11_UpdateKeepsCreatedAt ==
    [][(/\ ~IsNull(state)
        /\ resp' # resp
        /\ ~IsNull(resp') /\ Val(resp').op = "Update" /\ Val(resp').errors = <<>>)
            => Val(state').created_at = Val(state).created_at]_vars

----------------------------------------------------------------------------
(* Properties of the translation functions (SpecTrans).                    *)

\* the expression document handed to createBackupPolicyExpression, if any
TranslatedExpression ==
    call.fn = "createBackupPolicyExpression" /\ ~IsNull(call.in.expression)

\* every node of the document, the top level and each operand of its group,
\* populates exactly one key
ExactlyOneKey(e) ==
    /\ Cardinality(Populated(e)) = 1
    /\ ~IsNull(e.group) =>
          \A i \in DOMAIN Val(e.group).operands :
              Cardinality(Populated(Val(e.group).operands[i])) = 1

\* C2: createBackupPolicyExpression fails unless every expression node, the
\* top level and each operand of a group, populates exactly one key.
C2_ExactlyOneKey ==
    (TranslatedExpression /\ ~ExactlyOneKey(Val(call.in.expression)))
        => call.out.err # ""

\* a condition of node under one of keys lists no value
EmptyValues(node, keys) ==
    \E k \in keys : ~IsNull(node[k]) /\ Val(node[k]).values = <<>>

\* the document, or the SDK expression built from it, holds an empty list
HasEmptyList(e, topKeys) ==
    \/ EmptyValues(e, topKeys \ {"group"})
    \/ /\ ~IsNull(e.group)
       /\ \/ Val(e.group).operands = <<>>
          \/ \E i \in DOMAIN Val(e.group).operands :
                EmptyValues(Val(e.group).operands[i], OperandKeys)

\* C3: createBackupPolicyExpression fails when a group's operands or a
\* condition's values are empty, so the expression it returns holds only
\* non-empty lists.
C3_NonEmptyLists ==
    TranslatedExpression
        => /\ HasEmptyList(Val(call.in.expression), TopKeys) => call.out.err # ""
           /\ call.out.err = "" => ~HasEmptyList(Val(call.out.expr), ExprKeys)

\* value lies in -2147483648..2147483647, read off the limbs
InInt32(value) ==
    \/ value[1] = 0 /\ value[2] < 128
    \/ value[1] = -1 /\ value[2] >= Limb - 128

\* the hour tier of m minutes: the next of 6, 8, 12 hours at or above m
Tier(m) ==
    IF ~Lt64(I64(360), m) THEN 6 ELSE IF ~Lt64(I64(480), m) THEN 8 ELSE 12

\* the interval a standard schedule config carries, Null when it has none
IntervalOf(cfg) ==
    IF "interval_config" \in DOMAIN cfg /\ ~IsNull(cfg.interval_config)
    THEN Some(Val(cfg.interval_config).interval_minutes)
    ELSE Null

\* C6: for frequency INTERVAL with a positive minute count m,
\* createStandardScheduleConfig succeeds with the tier of m: 6 up to 360,
\* 8 up to 480, 12 above.
C6_IntervalRounding ==
    (/\ call.fn = "createStandardScheduleConfig"
     /\ call.in.schedule_config.frequency = "INTERVAL"
     /\ ~IsNull(call.in.schedule_config.interval_config))
        => LET m == Val(Val(call.in.schedule_config.interval_config).interval_minutes)
           IN  Lt64(I64(0), m)
                  => /\ call.out.err = ""
                     /\ IntervalOf(Val(call.out.cfg)) = Some(Tier(m))

\* the daily_config document a schedule translation was handed: the argument
\* of createDailyConfigFromModel, or the daily_config of a DAILY schedule
DailyConfigIn ==
    IF call.fn = "createDailyConfigFromModel" THEN Some(call.in)
    ELSE IF call.fn = "createStandardScheduleConfig"
            /\ call.in.schedule_config.frequency = "DAILY"
    THEN call.in.schedule_config.daily_config
    ELSE Null

\* the daily config the translation returned
DailyConfigOut ==
    IF call.fn = "createDailyConfigFromModel" THEN Val(call.out.cfg)
    ELSE Val(Val(call.out.cfg).daily_config)

\* a start_window_minutes was supplied to a schedule translation
StartWindowSupplied ==
    ~IsNull(DailyConfigIn) /\ ~IsNull(Val(DailyConfigIn).start_window_minutes)

StartWindowIn == Val(Val(DailyConfigIn).start_window_minutes)

\* C7 as stated: translation fails whenever the supplied start_window_minutes
\* lies outside 240..1320.
C7_StartWindowRange ==
    (StartWindowSupplied
        /\ (Lt64(StartWindowIn, I64(240)) \/ Lt64(I64(1320), StartWindowIn)))
        => call.out.err # ""

\* time_of_day_hour and time_of_day_minutes are supplied and fit int32
TimeOfDayFits ==
    /\ ~IsNull(Val(DailyConfigIn).time_of_day_hour)
    /\ ~IsNull(Val(DailyConfigIn).time_of_day_minutes)
    /\ InInt32(Val(Val(DailyConfigIn).time_of_day_hour))
    /\ InInt32(Val(Val(DailyConfigIn).time_of_day_minutes))

\* C7 amended: translation fails whenever the supplied start_window_minutes
\* lies outside the int32 range, and only then when the time of day fits; a
\* config that is built carries the supplied value unchanged, inside
\* 240..1320 or not.
C7_StartWindowInt32 ==
    StartWindowSupplied
        => /\ ~InInt32(StartWindowIn) => call.out.err # ""
           /\ (InInt32(StartWindowIn) /\ TimeOfDayFits) => call.out.err = ""
           /\ call.out.err = ""
                 => /\ ~IsNull(DailyConfigOut.start_window_minutes)
                    /\ I64(Val(DailyConfigOut.start_window_minutes)) = StartWindowIn

\* C7 witness: a DAILY schedule with start_window_minutes 239 is translated
\* and its config carries 239
C7_Witness ==
    /\ call.fn = "createStandardScheduleConfig"
    /\ StartWindowSupplied
    /\ StartWindowIn = I64(239)
    /\ call.out.err = ""
    /\ DailyConfigOut.start_window_minutes = Some(239)

----------------------------------------------------------------------------
(* Claims about Create of a restore job, checked under SpecRestore.        *)

StartCalls ==
    {"StartVolumeRestore", "StartEc2InstanceRestore", "StartRdsRestore",
     "StartS3BucketRestore", "StartS3FileRestore"}

\* the calls Create made, and those of them that submit a restore
CallsMade == {rresp.calls[i] : i \in DOMAIN rresp.calls}
StartsMade == CallsMade \cap StartCalls
NumStartsMade == Cardinality({i \in DOMAIN rresp.calls : rresp.calls[i] \in StartCalls})

\* the dispatch table: the config block and the start call of the pair
\* (resource type, restore_type), block "" where the table has no entry
TableEntry(block, start) == [block |-> block, start |-> start]
DispatchTable(resourceType, restoreType) ==
    CASE resourceType = "AWS_EC2" /\ restoreType = "full" ->
            TableEntry("ec2_config", "StartEc2InstanceRestore")
      [] resourceType = "AWS_EC2" /\ restoreType = "partial" ->
            TableEntry("ebs_config", "StartVolumeRestore")
      [] resourceType = "AWS_RDS" /\ restoreType \in {"full", "partial"} ->
            TableEntry("rds_config", "StartRdsRestore")
      [] resourceType = "AWS_S3" /\ restoreType = "full" ->
            TableEntry("s3_bucket_config", "StartS3BucketRestore")
      [] resourceType = "AWS_S3" /\ restoreType = "partial" ->
            TableEntry("s3_file_config", "StartS3FileRestore")
      [] OTHER -> TableEntry("", "")

Entry == DispatchTable(Val(rdata).resource_type, Val(rdata).plan.restore_type)

\* C12: a Create invokes at most one start call, and only the one the
\* dispatch table gives for (resource type, restore_type); where the table
\* has no entry (another resource type, a restore_type other than full and
\* partial) or the entry's config block is absent, Create reports an error
\* and invokes no start call.
C12_DispatchTable ==
    rpc # "idle" =>
        /\ NumStartsMade <= 1
        /\ StartsMade \subseteq {Entry.start}
        /\ (Entry.block = "" \/ IsNull(Val(rdata).plan[Entry.block]))
              => (StartsMade = {} /\ rresp.errors # <<>>)

\* a partial S3 restore, with other blocks present too, started its file restore
C12_Witness ==
    /\ rpc = "done"
    /\ Val(rdata).resource_type = "AWS_S3"
    /\ Val(rdata).plan.restore_type = "partial"
    /\ ~IsNull(Val(rdata).plan.s3_bucket_config)
    /\ StartsMade = {"StartS3FileRestore"}

\* the sub-fields each builder requires, and whether block has them populated
NonEmptyFields(start) ==
    CASE start = "StartVolumeRestore" ->
            {"provider_volume_id", "availability_zone", "volume_type"}
      [] start = "StartEc2InstanceRestore" ->
            {"region", "instance_type", "subnet_id", "volume_restore_params"}
      [] start = "StartRdsRestore" ->
            {"db_instance_identifier", "db_instance_class", "engine", "region",
             "kms_key_id"}
      [] start = "StartS3BucketRestore" -> {"bucket_name"}
      [] start = "StartS3FileRestore" -> {"bucket_name", "files"}
      [] OTHER -> {}

ListFields == {"volume_restore_params", "files"}

Unpopulated(start, block) ==
    {f \in NonEmptyFields(start) :
        \/ IsNull(block[f])
        \/ IF f \in ListFields THEN Val(block[f]) = <<>> ELSE Val(block[f]) = ""}
        \cup (IF start = "StartVolumeRestore"
                    /\ (IsNull(block.volume_size) \/ Val(block.volume_size) = I64(0))
              THEN {"volume_size"} ELSE {})

EbsFieldErrors(fields) == {f \o " is required for EBS volume restore" : f \in fields}

\* C13: a start call is made only with every required sub-field of the
\* selected builder's block populated; an EBS block with provider_volume_id,
\* availability_zone or volume_type null or empty, or volume_size null or
\* zero, gets an error naming such a field and none of the start calls.
C13_RequiredSubFields ==
    (rpc # "idle" /\ Entry.block # "" /\ ~IsNull(Val(rdata).plan[Entry.block])) =>
        LET missing == Unpopulated(Entry.start, Val(Val(rdata).plan[Entry.block]))
        IN  /\ StartsMade # {} => missing = {}
            /\ (Entry.start = "StartVolumeRestore" /\ missing # {}
                    /\ "GetResourceById" \in CallsMade /\ Len(rresp.errors) = 1
                    /\ rresp.errors[1].summary = "Client Error"
                    /\ rresp.errors[1].detail # "Unable to retrieve resource")
                  => rresp.errors[1].detail \in EbsFieldErrors(missing)

\* the EBS builder refused a block with a zero volume_size
C13_Witness ==
    /\ rpc = "done"
    /\ Entry.start = "StartVolumeRestore"
    /\ ~IsNull(Val(rdata).plan.ebs_config)
    /\ Val(Val(rdata).plan.ebs_config).volume_size = Some(I64(0))
    /\ Len(rresp.errors) = 1
    /\ rresp.errors[1].detail = "volume_size is required for EBS volume restore"
    /\ StartsMade = {}

\* C14: a partial restore of an EC2 resource without ebs_config is refused
\* with an error naming ebs_config, and that Create has made no remote call.
C14_NoRemoteCallBeforeValidation ==
    (/\ rpc = "done"
     /\ Val(rdata).resource_type = "AWS_EC2"
     /\ Val(rdata).plan.restore_type = "partial"
     /\ IsNull(Val(rdata).plan.ebs_config)
     /\ Len(rresp.errors) = 1
     /\ rresp.errors[1].summary = "Configuration Error")
        => /\ rresp.errors[1].detail =
                "ebs_config is required when restoring AWS EC2 volumes with restore_type 'partial'"
           /\ rresp.calls = <<>>

\* a step of the polling loop that fetched the status
Polled == wait'.polls = wait.polls + 1

\* the loop returned in this step, and returned success
Returned == IsNull(wait.result) /\ ~IsNull(wait'.result)
ReturnedSuccess == Returned /\ Val(wait'.result).err = ""

\* C15: every poll comes one 10-second tick after the one before; the loop
\* returns success only with the job it has just fetched, whose status is
\* JOB_COMPLETED or JOB_PARTIAL, and that status is the one Create stores;
\* a poll that fetches an unset, JOB_PENDING or JOB_RUNNING status returns
\* nothing and the loop goes on.
C15_SuccessOnlyWhenCompleted ==
    [][/\ Polled => wait'.elapsed = wait.elapsed + 1
       /\ ReturnedSuccess =>
            /\ Polled
            /\ Val(wait'.result).job = wait'.fetched
            /\ Val(wait'.fetched).status \in {"JOB_COMPLETED", "JOB_PARTIAL"}
            /\ Val(rstate').status = Some(Val(wait'.fetched).status)
       /\ (Polled /\ ~IsNull(wait'.fetched)
              /\ Val(wait'.fetched).status \in {"", "JOB_PENDING", "JOB_RUNNING"})
            => (IsNull(wait'.result) /\ rpc' = "waiting")]_vars

\* the third poll fetched a completed job after a running one, and the loop
\* returned it
C15_Witness ==
    /\ rpc = "done"
    /\ wait.polls = 3
    /\ wait.elapsed * TickSeconds = 30
    /\ ~IsNull(wait.result) /\ Val(wait.result).err = ""
    /\ Val(Val(wait.result).job).status = "JOB_COMPLETED"
    /\ Val(rstate).status = Some("JOB_COMPLETED")

\* whether text t occurs in text s
Contains(s, t) ==
    t = "" \/ \E i \in 1..(Len(s) - Len(t) + 1) : SubSeq(s, i, i + Len(t) - 1) = t

\* C16: a poll that fetches JOB_FAILED or JOB_CANCELLED ends the loop, which
\* returns that job and an error; the error's message contains the job's
\* status_message when it has one and "unknown error" when it has none.
C16_FailureCarriesMessage ==
    (~IsNull(wait.fetched) /\ Val(wait.fetched).status \in {"JOB_FAILED", "JOB_CANCELLED"}) =>
        /\ rpc = "done"
        /\ ~IsNull(wait.result)
        /\ Val(wait.result).job = wait.fetched
        /\ Val(wait.result).err # ""
        /\ Contains(Val(wait.result).err,
                    IF IsNull(Val(wait.fetched).status_message) THEN "unknown error"
                    ELSE Val(Val(wait.fetched).status_message))

\* a cancelled job without a status message ended the loop at its second poll
C16_Witness ==
    /\ wait.polls = 2
    /\ ~IsNull(wait.fetched)
    /\ Val(wait.fetched).status = "JOB_CANCELLED"
    /\ IsNull(Val(wait.fetched).status_message)
    /\ ~IsNull(wait.result)
    /\ Contains(Val(wait.result).err, "unknown error")

\* the wait ended by its timeout (or the cancellation of the caller's context)
TimedOut ==
    /\ ~IsNull(wait.result)
    /\ Val(wait.result).err = "timeout waiting for restore job job-1 to complete"

\* the wait ended on a job that failed or was cancelled
JobFailed ==
    /\ ~IsNull(wait.result)
    /\ ~IsNull(Val(wait.result).job)
    /\ Val(Val(wait.result).job).status \in {"JOB_FAILED", "JOB_CANCELLED"}

\* C17: a Create that waited and whose wait ended by timeout or on a failed
\* or cancelled job reports an error diagnostic.
C17_WaitFailureIsError ==
    (rpc = "done" /\ Val(rdata).plan.wait_for_completion /\ (TimedOut \/ JobFailed))
        => rresp.errors # <<>>

FinalFetches == Cardinality({i \in DOMAIN rresp.calls : rresp.calls[i] = "GetRestoreJob"})

\* C18: after a wait that timed out Create has called GetRestoreJob once
\* more, and the state it stores has id, job_id and status set, whether
\* that call succeeded or failed.
C18_StatusNeverBlank ==
    (rpc = "done" /\ TimedOut) =>
        /\ FinalFetches = 1
        /\ ~IsNull(rstate)
        /\ ~IsNull(Val(rstate).id)
        /\ ~IsNull(Val(rstate).job_id)
        /\ ~IsNull(Val(rstate).status)

\* the wait timed out after polling a running job and the final fetch
\* failed: the state keeps the timeout's message
C18_Witness ==
    /\ rpc = "done"
    /\ TimedOut
    /\ wait.polls > 0
    /\ wait.elapsed = wait.deadline
    /\ Val(rstate).status = Some("JOB_FAILED")
    /\ Val(rstate).status_message = Some(Val(wait.result).err)

----------------------------------------------------------------------------
(* Termination of the polling loop, checked under SpecRestoreFair.         *)

\* C19: whatever statuses the remote reports, a wait that has begun ends:
\* the loop returns on a terminal status, a failed fetch, the timeout or the
\* cancellation of the caller's context; and once it has returned the loop
\* fetches no status and changes nothing any more.
C19_WaitTerminates ==
    /\ (rpc = "waiting") ~> (rpc = "done" /\ ~IsNull(wait.result))
    /\ [][~IsNull(wait.result) => wait' = wait]_vars

\* the caller cancelled a wait that had polled and had ticks left
C19_Witness ==
    /\ rpc = "done"
    /\ TimedOut
    /\ wait.polls > 0
    /\ wait.elapsed + 1 < wait.deadline

----------------------------------------------------------------------------
(* Claims about the client's token, checked under SpecClient.              *)

\* an operation ran in this step
Operated == client'.clock = client.clock /\ client' # client

\* C20: an operation authenticates exactly when the clock is past the cached
\* token's expiry less 30 seconds; then it issues its API request only if
\* that authentication succeeded, and with the new token; if it failed the
\* operation returns an error and issues no request.
C20_TokenCheckedBeforeCall ==
    [][Operated =>
        LET last == Val(client'.last)
            past == client.clock > client.tokenExpiry - 30
        IN  /\ last.authenticated <=> past
            /\ (past /\ last.issued) =>
                  /\ last.bearer = Some(client'.authToken)
                  /\ client'.authToken[1] = client.clock
                  /\ client'.tokenExpiry = client.clock + client'.authToken[2]
            /\ (past /\ ~last.issued) =>
                  /\ last.err # ""
                  /\ client'.authToken = client.authToken
            /\ ~past => last.issued]_vars

\* an operation found the token a second past its margin, failed to
\* authenticate and issued nothing
C20_Witness ==
    /\ ~IsNull(client.last)
    /\ client.clock = client.tokenExpiry - Margin + 1
    /\ Val(client.last).authenticated
    /\ ~Val(client.last).issued
    /\ Val(client.last).err # ""

----------------------------------------------------------------------------
(* More claims about the polling loop, checked under SpecRestore.          *)

\* C27: no status is fetched before the first tick: a wait whose timeout is
\* shorter than a tick (timeout_minutes = 0), or that is cancelled before
\* the first tick, returns the timeout error and no job without having
\* fetched anything; and there are never more polls than ticks.
C27_NoFetchBeforeFirstTick ==
    /\ wait.polls <= wait.elapsed
    /\ (/\ ~IsNull(wait.result)
        /\ (Val(rdata).plan.timeout_minutes = 0 \/ wait.elapsed = 0))
          => /\ wait.polls = 0
             /\ IsNull(wait.fetched)
             /\ IsNull(Val(wait.result).job)
             /\ Val(wait.result).err = "timeout waiting for restore job job-1 to complete"

\* a wait with timeout_minutes = 0 returned its timeout without a poll
C27_Witness ==
    /\ rpc = "done"
    /\ Val(rdata).plan.wait_for_completion
    /\ Val(rdata).plan.timeout_minutes = 0
    /\ TimedOut
    /\ wait.polls = 0

----------------------------------------------------------------------------
(* More claims about the backup-policy reconciler, checked under Spec.     *)

\* a handler ran in this step and left the response r
Handled(op) == resp' # resp /\ ~IsNull(resp') /\ Val(resp').op = op

\* the remote call of the response failed
CallFailed(r) == \E i \in DOMAIN r.calls : r.calls[i].status >= 400

\* C28: a Create or Update whose remote call fails reports an error and
\* leaves the tracked state as it was: absent after a failed Create, the
\* prior state after a failed Update.
C28_FailedCallWritesNothing ==
    [][((Handled("Create") \/ Handled("Update")) /\ CallFailed(Val(resp')))
          => /\ Val(resp').errors # <<>>
             /\ state' = state
             /\ Handled("Create") => IsNull(state')]_vars

\* an Update of a tracked policy failed at the remote
C28_Witness ==
    /\ Ran("Update")
    /\ CallFailed(Val(resp))
    /\ ~IsNull(state)
    /\ Val(resp).errors = <<"Error updating backup policy">>

\* the fields of the tracked state a Read may change
Refreshed == {"id", "name", "enabled", "created_at", "updated_at"}

\* C29: a Read that succeeds changes no field of the tracked state other
\* than id, name, enabled, created_at and updated_at: resource_selector and
\* backup_plan stay as they were, whatever the remote policy holds.
C29_ReadKeepsSelectorAndPlan ==
    [][(Handled("Read") /\ Val(resp').errors = <<>>)
          => /\ ~IsNull(state) /\ ~IsNull(state')
             /\ DOMAIN Val(state') = DOMAIN Val(state)
             /\ \A f \in DOMAIN Val(state) \ Refreshed : Val(state')[f] = Val(state)[f]
             /\ Val(state').resource_selector = Val(state).resource_selector
             /\ Val(state').backup_plan = Val(state).backup_plan]_vars

\* a Read succeeded on an imported state, which holds no selector, while
\* the remote policy has one
C29_Witness ==
    /\ Ran("Read")
    /\ Val(resp).errors = <<>>
    /\ ~IsNull(state)
    /\ IsNull(Val(state).resource_selector)
    /\ ~IsNull(remote[Val(state).id])
    /\ ~IsNull(Val(state).name)

----------------------------------------------------------------------------
(* A claim about createEc2InstanceRestore, checked under SpecTrans.        *)

\* the int64 b shifted right by 30 bits: the largest n with n * 2^30 <= b
DivGiB(b) ==
    LET q == b[1] \div 64
        lo == (b[1] % 64) * 262144 + b[2] \div 64
    IN  IF q >= 0 THEN <<0, q, lo>> ELSE <<-1, Limb + q, lo>>

\* the volumes declared in the plan of the call, and those of its request
DeclaredVolumes == Val(Val(call.in.ec2_config).volume_restore_params)
SentVolumes == Val(call.out.request).volume_restore_parameters

\* C30: the SizeBytes createEc2InstanceRestore sends for a volume is the
\* exact product of its volume_size and 2^30: dividing it by 2^30 gives
\* volume_size back; a size whose product leaves int64 is refused.
C30_SizeBytesExact ==
    (call.fn = "createEc2InstanceRestore" /\ call.out.start # "") =>
        \A i \in DOMAIN DeclaredVolumes :
            DivGiB(SentVolumes[i].volume_settings.size_bytes)
                = ValueInt64(DeclaredVolumes[i].volume_size)

----------------------------------------------------------------------------
(* Claims about the account resources, checked under SpecAccount.          *)

\* a handler of an account resource ran in this step
AcctHandled(op) == acct'.resp # acct.resp /\ ~IsNull(acct'.resp) /\ Val(acct'.resp).op = op

\* the last handler of the account resource
AcctRan(op) == ~IsNull(acct.resp) /\ Val(acct.resp).op = op

C23_OnlyAwsIsConnected ==
    [][(AcctHandled("Create") /\ Val(Val(acct'.resp).plan).cloud_provider # "AWS")
          => /\ Val(acct'.resp).errors # <<>>
             /\ Val(acct'.resp).calls = <<>>
             /\ acct'.remote = acct.remote
             /\ IsNull(acct'.state)]_vars

\* a Create for an AZURE account that names a role was refused
C23_Witness ==
    /\ AcctRan("Create")
    /\ Val(Val(acct.resp).plan).cloud_provider = "AZURE"
    /\ ~IsNull(Val(Val(acct.resp).plan).role)
    /\ Val(Val(Val(acct.resp).plan).role) # ""
    /\ Val(acct.resp).errors = <<"Unsupported Provider">>
    /\ IsNull(acct.state)

\* C24: an Update makes no remote call, leaves the remote's accounts as they
\* were and emits a warning; and it stores no change of
\* provider_account_id, cloud_provider or role in the tracked state.
C24_UpdateChangesNothingIdentifying ==
    [][AcctHandled("Update")
          => /\ Val(acct'.resp).calls = <<>>
             /\ acct'.remote = acct.remote
             /\ Val(acct'.resp).warnings # <<>>
             /\ Val(acct'.state).provider_account_id = Val(acct.state).provider_account_id
             /\ Val(acct'.state).cloud_provider = Val(acct.state).cloud_provider
             /\ Val(acct'.state).role = Val(acct.state).role]_vars

----------------------------------------------------------------------------
(* MockEonClient: which ids are stored, and what a call of an id answers.  *)

Stored(m) == DOMAIN m.BackupPolicies

\* a counted method ran in this step
MockRan(op) == mock'.Calls[op] = mock.Calls[op] + 1

\* the method ran in this step on this id and returned no error
MockRanWell(op, id) == MockRan(op) /\ mock'.last.id = Some(id) /\ mock'.last.err = ""

\* CreateBackupPolicy returned a policy of this id in this step
MockCreated(id) ==
    /\ MockRan("Create")
    /\ mock'.last.err = ""
    /\ mock'.last.policy # Null
    /\ Val(mock'.last.policy).Id = id

\* an uncounted method returned in this step
MockReturned(op) == mock'.last # mock.last /\ mock'.last.op = op

\* ReadBackupPolicy ran on this id in this step and returned the policy of
\* this id
ReadWell(id) ==
    /\ MockRanWell("Read", id)
    /\ mock'.last.policy # Null
    /\ Val(mock'.last.policy).Id = id

\* a call returned an error in this step
MockReturnedError ==
    \/ \E op \in MockOps \ {"List"} : MockRan(op) /\ mock'.last.err # ""
    \/ \E g \in Goroutines : mock.go[g].pc = "store" /\ mock'.go[g].pc = "idle"

\* an id enters the store by a successful Create or by AddMockPolicy and by
\* nothing else, and leaves it by a successful Delete or by Reset and by
\* nothing else; Update and Delete of an id not stored return an error; a
\* call that returns an error leaves the store as it was
StoreFollowsCalls ==
    /\ \A id \in Stored(mock') \ Stored(mock) :
           MockCreated(id) \/ (MockReturned("AddMockPolicy") /\ mock'.last.id = Some(id))
    /\ \A id \in Stored(mock) \ Stored(mock') :
           MockRanWell("Delete", id) \/ MockReturned("Reset")
    /\ \A n \in 1..(MaxCalls + 1) : MockCreated(MockPolicyId(n)) =>
           MockPolicyId(n) \in Stored(mock')
    /\ \A id \in MockIds :
           /\ MockReturned("AddMockPolicy") /\ mock'.last.id = Some(id) => id \in Stored(mock')
           /\ MockRanWell("Delete", id) => id \in Stored(mock) /\ id \notin Stored(mock')
           /\ MockRanWell("Update", id) => id \in Stored(mock) /\ id \in Stored(mock')
           /\ MockRan("Read") /\ mock'.last.id = Some(id) /\ id \notin Stored(mock) =>
                  mock'.last.err # ""
    /\ MockReturned("Reset") => Stored(mock') = {}
    /\ MockReturnedError => mock'.BackupPolicies = mock.BackupPolicies

\* the statement as the specification words it: an id is readable exactly
\* when it is stored
C25_ReadableIffStored ==
    [][/\ StoreFollowsCalls
       /\ \A id \in MockIds :
              MockRan("Read") /\ mock'.last.id = Some(id) =>
                  (ReadWell(id) <=> id \in Stored(mock))]_vars

\* C25: on a MockEonClient an id enters the store by a successful Create or
\* by AddMockPolicy and leaves it by a successful Delete or by Reset; Read
\* (and Get) of an id succeeds and returns the policy of that id exactly when
\* the id is stored and ShouldFailRead is not set; Read, Update and Delete of
\* an id not stored return an error; a call that returns an error leaves the
\* stored policies unchanged.
C25_ReadableIffStoredAndNotFailing ==
    [][/\ StoreFollowsCalls
       /\ \A id \in MockIds :
              MockRan("Read") /\ mock'.last.id = Some(id) =>
                  (ReadWell(id) <=> id \in Stored(mock) /\ ~mock.ShouldFail["Read"])]_vars

\* a policy was created, deleted again, and the Read of its id has failed
C25_Witness ==
    /\ mock.Calls["Create"] = 1
    /\ mock.Calls["Delete"] = 1
    /\ MockPolicyId(1) \notin Stored(mock)
    /\ mock.last.op = "Read"
    /\ mock.last.id = Some(MockPolicyId(1))
    /\ mock.last.err = "backup policy not found: mock-policy-1"

----------------------------------------------------------------------------
(* MockEonClient under concurrent ListBackupPolicies calls.                *)

\* the goroutine's call of ListBackupPolicies returns its list in this step
ListReturns(g) == mock.go[g].pc = "range" /\ mock'.go[g].pc = "idle"

\* the list holds every stored policy once, in ascending order of id
AllStoredSorted(policies, stored) ==
    /\ Len(policies) = Cardinality(DOMAIN stored)
    /\ \A i \in DOMAIN policies :
           policies[i].Id \in DOMAIN stored /\ policies[i] = stored[policies[i].Id]
    /\ \A i, j \in DOMAIN policies : i < j => IdLess(policies[i].Id, policies[j].Id)

----------------------------------------------------------------------------
(* EonClient's token cache under racing refreshes.                         *)

\* goroutines inside authenticate's three writes
Refreshing == {g \in Callers : conc.go[g].pc \in {"authToken", "tokenExpiry", "header"}}

\* C21: with operations of one EonClient racing to refresh, at most one of
\* them is writing the cached token at a time, and whenever none is, the
\* cached authToken, tokenExpiry and Authorization header come from the same
\* authentication response; the process is not ended by the runtime.
C21_CacheFromOneResponse ==
    /\ Cardinality(Refreshing) <= 1
    /\ conc.fatal = ""
    /\ Refreshing = {} => conc.expiryOf = conc.authToken /\ conc.header = conc.authToken

============================================================================
